---------------------------- MODULE Spec2Model ----------------------------
(***************************************************************************)
(* The Phore JSON-RPC wallet (BitcoindWallet) of openbazaar-go: fee        *)
(* oracle, multisig script generation, multisig signing and combining,     *)
(* sweeping, fee bumping and spending.                                     *)
(*                                                                         *)
(* Every wallet operation is one action.  The daemon is the environment:   *)
(* the answers it gives to the RPC calls an operation makes are inputs of  *)
(* the action, drawn from small sets.  The state is the record of the last *)
(* operation: its name, its arguments, what it returned, the transaction   *)
(* it built, and the RPC calls it made (with the transactions it handed to *)
(* sendrawtransaction).                                                    *)
(***************************************************************************)
EXTENDS Integers, Sequences, FiniteSets, TLC

VARIABLES
    op,     \* name of the last operation that ran ("none" after construction)
    args,   \* its arguments and the daemon's answers to it
    err,    \* the error it returned ("nil" for none, "panic" for a runtime panic)
    ret,    \* the values it returned
    tx,     \* the transaction it built (NoTx when it built none)
    rpc,    \* the RPC calls it made, in order
    sent,   \* the transactions it passed to SendRawTransaction, in order
    svc,    \* an inbound stream of the protocol service and the goroutine serving it
    snd,    \* the message sender of a peer and the SendRequest calls using it
    life,   \* the start of the wallet: started, the pending scripts, the timer
    repo,   \* a repo directory and the migration applied to it
    note,   \* the last value handed to wrap or Serialize and what came back
    xr      \* the exchange-rate fetcher: its cache, its lock and its callers

vars == <<op, args, err, ret, tx, rpc, sent, svc, snd, life, repo, note, xr>>

\* the record of the last wallet operation
walletVars == <<op, args, err, ret, tx, rpc, sent>>

----------------------------------------------------------------------------
(* Bounds of the model *)

\* longest daemon answer to estimatefee, in characters
MaxRespLen == 5
\* most inputs (utxos) handed to one operation
MaxIns == 2
\* most outputs handed to CreateMultisigSignature / Multisign
MaxOuts == 2
\* most keys handed to GenerateMultisigScript
MaxKeys == 3
\* largest feePerByte handed to CreateMultisigSignature / Multisign
MaxFeeRate == 2

----------------------------------------------------------------------------
(* Small helpers *)

Min(a, b) == IF a < b THEN a ELSE b
Max(a, b) == IF a > b THEN a ELSE b

RECURSIVE SumSeq(_)
SumSeq(s) == IF s = <<>> THEN 0 ELSE Head(s) + SumSeq(Tail(s))

\* all sequences over S of length 0..n
SeqsUpTo(S, n) == UNION {[1..k -> S] : k \in 0..n}

\* A uint32 is kept as its two 16-bit halves [hi, lo], so that the sequence
\* numbers near 2^32 keep their values.
ToU32(n) == [hi |-> (n \div 65536) % 65536, lo |-> n % 65536]
U32Less(a, b) == a.hi < b.hi \/ (a.hi = b.hi /\ a.lo < b.lo)

----------------------------------------------------------------------------
(* Scripts.  A script is a sequence of parsed opcodes.  An opcode is       *)
(* [op: its byte, len: the number of data bytes that follow it in the      *)
(* script, data: what those bytes hold (a key id, or a number)].           *)

OP_0 == 0
OP_1NEGATE == 79
OP_IF == 99
OP_ELSE == 103
OP_ENDIF == 104
OP_DROP == 117
OP_CHECKSIG == 172
OP_CHECKMULTISIG == 174
OP_CHECKSEQUENCEVERIFY == 178

\* ScriptBuilder.AddOp
AddOp(script, opcode) == Append(script, [op |-> opcode, len |-> 0, data |-> 0])

\* bytes of the minimal little-endian script number encoding of n > 0
RECURSIVE ScriptNumLen(_)
ScriptNumLen(n) == IF n < 128 THEN 1 ELSE 1 + ScriptNumLen(n \div 256)

\* ScriptBuilder.AddInt64: small integers are single opcodes, the rest a data push
AddInt64(script, n) ==
    IF n = 0 THEN AddOp(script, OP_0)
    ELSE IF n = -1 THEN AddOp(script, OP_1NEGATE)
    ELSE IF n >= 1 /\ n <= 16 THEN AddOp(script, 80 + n)
    ELSE Append(script, [op |-> ScriptNumLen(IF n < 0 THEN -n ELSE n),
                         len |-> ScriptNumLen(IF n < 0 THEN -n ELSE n),
                         data |-> n])

\* ScriptBuilder.AddData of a 33-byte compressed public key
AddData(script, key) == Append(script, [op |-> 33, len |-> 33, data |-> key])

\* number of bytes of the script
RECURSIVE ScriptLen(_)
ScriptLen(script) ==
    IF script = <<>> THEN 0 ELSE 1 + Head(script).len + ScriptLen(Tail(script))

\* the opcode that starts at byte offset off (0-based), or op -1 when none does
RECURSIVE OpAtOffset(_, _)
OpAtOffset(script, off) ==
    IF script = <<>> \/ off < 0 THEN [op |-> -1, len |-> 0, data |-> 0]
    ELSE IF off = 0 THEN Head(script)
    ELSE OpAtOffset(Tail(script), off - 1 - Head(script).len)

\* txscript.parseScript: a data push opcode must be followed by all its bytes
ParseOk(script) ==
    \A i \in 1..Len(script) :
        IF script[i].op >= 1 /\ script[i].op <= 75
        THEN script[i].len = script[i].op
        ELSE script[i].len = 0

\* the value an opcode pushes when read as a number
OpNumber(o) ==
    IF o.op >= 81 /\ o.op <= 96 THEN o.op - 80
    ELSE IF o.op = OP_0 THEN 0
    ELSE o.data


\* spvwallet.LockTimeFromRedeemScript: the script must be at least 113 bytes
\* long with OP_ELSE as byte 106; the lock time is the number pushed at byte 107
LockTimeFromRedeemScript(script) ==
    LET o == OpAtOffset(script, 107) IN
    IF ScriptLen(script) < 113 THEN [err |-> "Redeem script invalid length", val |-> 0]
    ELSE IF OpAtOffset(script, 106).op # OP_ELSE THEN [err |-> "Invalid redeem script", val |-> 0]
    ELSE IF o.op = OP_0 \/ (o.op >= 81 /\ o.op <= 96) \/ (o.op >= 1 /\ o.op <= 75)
         THEN [err |-> "nil", val |-> OpNumber(o)]
    ELSE [err |-> "Too many bytes pushed for sequence", val |-> 0]

\* blockchain.LockTimeToSequence(false, n): a lock in blocks is the number itself
LockTimeToSequence(isSeconds, locktime) ==
    IF ~isSeconds THEN locktime ELSE 4194304 + (locktime \div 512)

----------------------------------------------------------------------------
(* Keys and addresses.  An extended key is [id, isPrivate, valid]; valid   *)
(* says its key bytes decode to a point of the curve.  NilKey is the nil   *)
(* pointer.                                                                *)

NilKey == [id |-> 0, isPrivate |-> FALSE, valid |-> FALSE]
ExtKey(i, priv, ok) == [id |-> i, isPrivate |-> priv, valid |-> ok]

\* hd.ExtendedKey.ECPubKey
ECPubKey(key) ==
    IF key.valid THEN [err |-> "nil", pub |-> key.id]
    ELSE [err |-> "invalid public key", pub |-> 0]

\* hd.ExtendedKey.ECPrivKey
ECPrivKey(key) ==
    IF key.isPrivate THEN [err |-> "nil", priv |-> key.id]
    ELSE [err |-> "unable to create private keys from a public extended key", priv |-> 0]

NoAddr == [kind |-> "none", key |-> 0, script |-> <<>>]
\* btc.NewAddressWitnessScriptHash(sha256(script))
P2WSH(script) == [kind |-> "p2wsh", key |-> 0, script |-> script]
\* a pay-to-pubkey-hash address of the key
P2PKHAddr(k) == [kind |-> "p2pkh", key |-> k, script |-> <<>>]

\* txscript.PayToAddrScript: the output script's length in bytes by address kind
PkScriptLen(addr) == IF addr.kind = "p2wsh" THEN 34 ELSE 25

----------------------------------------------------------------------------
(* GenerateMultisigScript.  The timeout is a time.Duration, here in whole  *)
(* minutes.                                                                *)

\* uint32(timeout.Hours()); the timeouts of the model are far below 2^32 hours
TimeoutHours(timeout) == timeout \div 60
\* uint32(timeout.Hours()*6)
TimeoutBlocks(timeout) == (timeout * 6) \div 60

RECURSIVE AddKeys(_, _)
AddKeys(script, keys) ==
    IF keys = <<>> THEN script
    ELSE AddKeys(AddData(script, ECPubKey(Head(keys)).pub), Tail(keys))

\* builder: <threshold> <keys...> <len(keys)> OP_CHECKMULTISIG
MultisigOps(script, keys, threshold) ==
    AddOp(AddInt64(AddKeys(AddInt64(script, threshold), keys), Len(keys)), OP_CHECKMULTISIG)

\* the check of the timeout key at the head of GenerateMultisigScript
TimeoutKeyMissing(timeout, timeoutKey) ==
    TimeoutHours(timeout) > 0 /\ timeoutKey = NilKey

\* an off-by-one in the check of the key count
TooFewKeysOffByOne(keys, threshold) == Len(keys) < threshold - 1

\* the check of the key count against the threshold
TooFewKeys(keys, threshold) == Len(keys) < threshold

GenFail(e) == [err |-> e, addr |-> NoAddr, script |-> <<>>]

GenerateMultisigScript(keys, threshold, timeout, timeoutKey) ==
    IF TimeoutKeyMissing(timeout, timeoutKey)
    THEN GenFail("Timeout key must be non nil when using an escrow timeout")
    ELSE IF TooFewKeys(keys, threshold)
    THEN GenFail("unable to generate multisig script")
    ELSE IF \E i \in 1..Len(keys) : ECPubKey(keys[i]).err # "nil"
    THEN GenFail("invalid public key")
    ELSE IF TimeoutHours(timeout) = 0
    THEN LET s == MultisigOps(<<>>, keys, threshold)
         IN  [err |-> "nil", addr |-> P2WSH(s), script |-> s]
    ELSE IF ECPubKey(timeoutKey).err # "nil"
    THEN GenFail("invalid public key")
    ELSE LET sequenceLock == LockTimeToSequence(FALSE, TimeoutBlocks(timeout))
             s1 == MultisigOps(AddOp(<<>>, OP_IF), keys, threshold)
             s2 == AddOp(AddOp(AddInt64(AddOp(s1, OP_ELSE), sequenceLock),
                               OP_CHECKSEQUENCEVERIFY), OP_DROP)
             s  == AddOp(AddOp(AddData(s2, ECPubKey(timeoutKey).pub), OP_CHECKSIG), OP_ENDIF)
         IN  [err |-> "nil", addr |-> P2WSH(s), script |-> s]

----------------------------------------------------------------------------
(* GetFeePerByte.  The daemon's answer to estimatefee is a sequence of     *)
(* characters.                                                             *)

Digits == {"0", "5"}
RespChars == Digits \cup {"-", "+", "."}
DigitVal(c) == CASE c = "0" -> 0 [] c = "5" -> 5 [] OTHER -> 0

RECURSIVE DigitsValue(_, _)
DigitsValue(s, acc) ==
    IF s = <<>> THEN acc ELSE DigitsValue(Tail(s), acc * 10 + DigitVal(Head(s)))

\* strconv.Atoi: an optional sign, then one or more decimal digits (the
\* answers of the model are too short to leave the range of int)
Atoi(s) ==
    LET signed == s # <<>> /\ Head(s) \in {"-", "+"}
        body == IF signed THEN Tail(s) ELSE s
        v == DigitsValue(body, 0)
    IN  IF body = <<>> \/ \E i \in 1..Len(body) : body[i] \notin Digits
        THEN [err |-> "invalid syntax", val |-> 0]
        ELSE [err |-> "nil", val |-> IF signed /\ Head(s) = "-" THEN -v ELSE v]

FeeLevels == {"PRIOIRTY", "NORMAL", "ECONOMIC", "FEE_BUMP"}

DefaultFee == 50

\* a slip in the switch: NORMAL asks for the 6-block estimate
NBlocksSwapped(feeLevel) ==
    CASE feeLevel = "PRIOIRTY" -> 1
      [] feeLevel = "NORMAL" -> 6
      [] feeLevel = "ECONOMIC" -> 6
      [] OTHER -> 0

\* the switch on the fee level: the nBlocks argument of estimatefee, 0 for the default branch
NBlocks(feeLevel) ==
    CASE feeLevel = "PRIOIRTY" -> 1
      [] feeLevel = "NORMAL" -> 3
      [] feeLevel = "ECONOMIC" -> 6
      [] OTHER -> 0

\* feePerKb / 1000
PerByte(feePerKb) == feePerKb \div 1000

\* an answer of the daemon to one RPC: err is the transport error
RpcCall(m, n) == [method |-> m, n |-> n]

\* GetFeePerByte(feeLevel) when the daemon answers estimatefee with
\* (rpcErr, resp): the fee and the RPC calls made
GetFeePerByte(feeLevel, rpcErr, resp) ==
    IF NBlocks(feeLevel) = 0 THEN [fee |-> DefaultFee, calls |-> <<>>]
    ELSE LET calls == <<RpcCall("estimatefee", NBlocks(feeLevel))>>
             a == Atoi(resp)
         IN  IF rpcErr THEN [fee |-> DefaultFee, calls |-> calls]
             ELSE IF a.err # "nil" THEN [fee |-> DefaultFee, calls |-> calls]
             ELSE IF a.val <= 0 THEN [fee |-> DefaultFee, calls |-> calls]
             ELSE [fee |-> PerByte(a.val), calls |-> calls]

----------------------------------------------------------------------------
(* Transactions.  An outpoint is [hash, index]; a transaction input is     *)
(* [outpoint, sequence, sigScript, witness]; an output is [value, script]  *)
(* with the script that of an address; a transaction is                    *)
(* [version, ins, outs, locktime].                                         *)

\* wire.MaxTxInSequenceNum (0xffffffff), the sequence wire.NewTxIn gives an input
MaxTxInSequenceNum == [hi |-> 65535, lo |-> 65535]
\* wire.TxVersion
TxVersion == 1

NoTx == [version |-> 0, ins |-> <<>>, outs |-> <<>>, locktime |-> 0]

\* a signature: the signing key and the digest it commits to; NoSig is nil
NoDigest == [idx |-> -1, outpoint |-> [hash |-> 0, index |-> 0], amt |-> 0,
             script |-> <<>>, sequence |-> ToU32(0), version |-> 0, prevouts |-> <<>>,
             sequences |-> <<>>, outs |-> <<>>, locktime |-> 0]
NoSig == [key |-> 0, digest |-> NoDigest]

\* witness stack items
ItemEmpty == [tag |-> "empty", sig |-> NoSig, script |-> <<>>]
ItemOne == [tag |-> "01", sig |-> NoSig, script |-> <<>>]
ItemScript(sc) == [tag |-> "script", sig |-> NoSig, script |-> sc]
\* the item holding signature bytes; nil bytes are the empty item
ItemSig(sg) == IF sg = NoSig THEN ItemEmpty ELSE [tag |-> "sig", sig |-> sg, script |-> <<>>]

\* an input constructor that opts in to replacement
NewTxInReplaceable(outpoint) ==
    [outpoint |-> outpoint, sequence |-> ToU32(0), sigScript |-> NoSig, witness |-> <<>>]

\* wire.NewTxIn(outpoint, []byte{}, [][]byte{})
NewTxIn(outpoint) ==
    [outpoint |-> outpoint, sequence |-> MaxTxInSequenceNum, sigScript |-> NoSig,
     witness |-> <<>>]

\* wire.NewTxOut
NewTxOut(value, script) == [value |-> value, script |-> script]

\* order of two output scripts as byte strings: a witness program (0x00 ...)
\* sorts before a pay-to-pubkey-hash script (0x76 ...), then by the hash
ScriptLess(a, b) ==
    IF a.kind # b.kind THEN a.kind = "p2wsh"
    ELSE IF a.key # b.key THEN a.key < b.key
    ELSE ScriptLen(a.script) < ScriptLen(b.script)

\* txsort: inputs by (previous hash, previous index)
InputLess(a, b) ==
    \/ a.outpoint.hash < b.outpoint.hash
    \/ a.outpoint.hash = b.outpoint.hash /\ a.outpoint.index < b.outpoint.index

\* txsort: outputs by (value, script)
OutputLess(a, b) ==
    \/ a.value < b.value
    \/ a.value = b.value /\ ScriptLess(a.script, b.script)

\* the order InPlaceSort gives the inputs
SortInputs(ins) == SortSeq(ins, InputLess)

\* txsort.InPlaceSort (BIP 69)
InPlaceSort(t) ==
    [t EXCEPT !.ins = SortInputs(t.ins), !.outs = SortSeq(t.outs, OutputLess)]

\* MsgTx.BtcEncode with witness encoding: the witness stacks follow the outputs
Serialize(t) ==
    [encoding |-> "witness", version |-> t.version,
     ins |-> [i \in 1..Len(t.ins) |->
                 [outpoint |-> t.ins[i].outpoint, sigScript |-> t.ins[i].sigScript,
                  sequence |-> t.ins[i].sequence]],
     outs |-> t.outs,
     witnesses |-> [i \in 1..Len(t.ins) |-> t.ins[i].witness],
     locktime |-> t.locktime]

NoBytes == [encoding |-> "nil", version |-> 0, ins |-> <<>>, outs |-> <<>>,
            witnesses |-> <<>>, locktime |-> 0]

\* MsgTx.TxHash: the hash of the encoding without witnesses
TxHash(t) ==
    [encoding |-> "base", version |-> t.version,
     ins |-> [i \in 1..Len(t.ins) |->
                 [outpoint |-> t.ins[i].outpoint, sigScript |-> t.ins[i].sigScript,
                  sequence |-> t.ins[i].sequence]],
     outs |-> t.outs,
     witnesses |-> <<>>,
     locktime |-> t.locktime]

----------------------------------------------------------------------------
(* Size estimation (spvwallet.EstimateSerializeSize) *)

\* wire.VarIntSerializeSize (the counts of the model are below 2^32)
VarIntSerializeSize(n) ==
    IF n < 253 THEN 1 ELSE IF n <= 65535 THEN 3 ELSE 5

\* serialized size of one input, by the class of the output it redeems
RedeemInputSize(txType) ==
    CASE txType = "P2PKH" -> 32 + 4 + 1 + 107 + 4
      [] txType = "P2SH_1of2_Multisig" -> 32 + 4 + 1 + 147 + 4
      [] txType = "P2SH_2of3_Multisig" -> 32 + 4 + 1 + 253 + 4
      [] txType = "P2SH_Multisig_Timelock_1Sig" -> 32 + 4 + 1 + 292 + 4
      [] txType = "P2SH_Multisig_Timelock_2Sigs" -> 32 + 4 + 1 + 365 + 4
      [] OTHER -> 0

\* TxOut.SerializeSize
OutputSerializeSize(o) == 8 + VarIntSerializeSize(PkScriptLen(o.script)) + PkScriptLen(o.script)

RECURSIVE SumOutputSerializeSizes(_)
SumOutputSerializeSizes(outs) ==
    IF outs = <<>> THEN 0
    ELSE OutputSerializeSize(Head(outs)) + SumOutputSerializeSizes(Tail(outs))

EstimateSerializeSize(inputCount, txOuts, addChangeOutput, txType) ==
    LET changeSize == IF addChangeOutput THEN 8 + 1 + 25 ELSE 0
        outputCount == Len(txOuts) + (IF addChangeOutput THEN 1 ELSE 0)
    IN  10 + VarIntSerializeSize(inputCount) + VarIntSerializeSize(outputCount)
           + inputCount * RedeemInputSize(txType)
           + SumOutputSerializeSizes(txOuts) + changeSize

----------------------------------------------------------------------------
(* Signing *)

\* txscript.RawTxInWitnessSignature(tx, hashes, idx, amt, script, SigHashAll, key):
\* fails when the script does not parse; idx is 0-based
RawTxInWitnessSignature(t, idx, amt, script, priv) ==
    IF ~ParseOk(script) \/ idx > Len(t.ins) - 1
    THEN [err |-> "cannot parse output script", sig |-> NoSig]
    ELSE [err |-> "nil",
          sig |-> [key |-> priv,
                   digest |-> [idx |-> idx,
                               outpoint |-> t.ins[idx + 1].outpoint,
                               amt |-> amt,
                               script |-> script,
                               sequence |-> t.ins[idx + 1].sequence,
                               version |-> t.version,
                               prevouts |-> [i \in 1..Len(t.ins) |-> t.ins[i].outpoint],
                               sequences |-> [i \in 1..Len(t.ins) |-> t.ins[i].sequence],
                               outs |-> t.outs,
                               locktime |-> t.locktime]]]

\* chainhash.NewHashFromStr(hex.EncodeToString(in.OutpointHash)): a hash of
\* more than 32 bytes is refused
HashOk(in) == in.hashLen <= 32

\* the inputs of CreateMultisigSignature / Multisign as transaction inputs
TxInsOf(ins) == [i \in 1..Len(ins) |-> NewTxIn([hash |-> ins[i].hash, index |-> ins[i].index])]

\* the size class CreateMultisigSignature / Multisign estimate the fee under
MultisigTxType(redeemScript) ==
    IF LockTimeFromRedeemScript(redeemScript).err = "nil"
    THEN "P2SH_Multisig_Timelock_2Sigs" ELSE "P2SH_2of3_Multisig"

\* fee / len(tx.TxOut), the amount taken from every output
FeePerOutput(fee, nOuts) == fee \div nOuts

\* "Subtract fee": the outputs after the estimated fee is taken evenly from them
SubtractFee(nIns, outs, redeemScript, feePerByte) ==
    LET estimatedSize == EstimateSerializeSize(nIns, outs, FALSE, MultisigTxType(redeemScript))
        fee == estimatedSize * feePerByte
    IN  IF Len(outs) > 0
        THEN [i \in 1..Len(outs) |->
                 [outs[i] EXCEPT !.value = outs[i].value - FeePerOutput(fee, Len(outs))]]
        ELSE outs

\* the unsigned, fee-reduced and sorted transaction both operations build
MultisigTx(ins, outs, redeemScript, feePerByte) ==
    InPlaceSort([version |-> 1,
                 ins |-> TxInsOf(ins),
                 outs |-> SubtractFee(Len(ins), outs, redeemScript, feePerByte),
                 locktime |-> 0])

\* the signing loop: one wallet.Signature per input that signs, the others skipped
RECURSIVE SignInputs(_, _, _, _, _)
SignInputs(t, ins, redeemScript, priv, i) ==
    IF i > Len(t.ins) THEN <<>>
    ELSE LET r == RawTxInWitnessSignature(t, i - 1, ins[i].value, redeemScript, priv)
             rest == SignInputs(t, ins, redeemScript, priv, i + 1)
         IN  IF r.err # "nil" THEN rest
             ELSE <<[InputIndex |-> i - 1, Signature |-> r.sig]>> \o rest

\* CreateMultisigSignature: [err, sigs, tx, calls]
CreateMultisigSignature(ins, outs, key, redeemScript, feePerByte) ==
    LET t == MultisigTx(ins, outs, redeemScript, feePerByte) IN
    IF \E i \in 1..Len(ins) : ~HashOk(ins[i])
    THEN [err |-> "invalid hash string", sigs |-> <<>>, tx |-> NoTx, calls |-> <<>>]
    ELSE IF ECPrivKey(key).err # "nil"
    THEN [err |-> ECPrivKey(key).err, sigs |-> <<>>, tx |-> t, calls |-> <<>>]
    ELSE [err |-> "nil",
          sigs |-> SignInputs(t, ins, redeemScript, ECPrivKey(key).priv, 1),
          tx |-> t, calls |-> <<>>]

\* the signature of the first entry of sigs tagged with input index i, or nil
RECURSIVE FindSig(_, _)
FindSig(sigs, i) ==
    IF sigs = <<>> THEN NoSig
    ELSE IF Head(sigs).InputIndex = i THEN Head(sigs).Signature
    ELSE FindSig(Tail(sigs), i)

\* a witness with the two signatures in the other order
MultisignWitnessSwapped(sigs1, sigs2, redeemScript, timeLocked, i) ==
    <<ItemEmpty, ItemSig(FindSig(sigs2, i)), ItemSig(FindSig(sigs1, i))>>
        \o (IF timeLocked THEN <<ItemOne>> ELSE <<>>)
        \o <<ItemScript(redeemScript)>>

\* the witness Multisign gives input i (0-based)
MultisignWitness(sigs1, sigs2, redeemScript, timeLocked, i) ==
    <<ItemEmpty, ItemSig(FindSig(sigs1, i)), ItemSig(FindSig(sigs2, i))>>
        \o (IF timeLocked THEN <<ItemOne>> ELSE <<>>)
        \o <<ItemScript(redeemScript)>>

\* a Multisign that broadcasts whatever the flag
AlwaysBroadcast(broadcast) == TRUE

\* whether Multisign makes the broadcast
ShouldBroadcast(broadcast) == broadcast

\* Multisign, when the daemon answers sendrawtransaction with sendErr:
\* [err, bytes, tx, calls, sent]
Multisign(ins, outs, sigs1, sigs2, redeemScript, feePerByte, broadcast, sendErr) ==
    LET t0 == MultisigTx(ins, outs, redeemScript, feePerByte)
        timeLocked == redeemScript[1].op = OP_IF
        t == [t0 EXCEPT !.ins = [i \in 1..Len(t0.ins) |->
                 [t0.ins[i] EXCEPT !.witness =
                     MultisignWitness(sigs1, sigs2, redeemScript, timeLocked, i - 1)]]]
    IN  IF \E i \in 1..Len(ins) : ~HashOk(ins[i])
        THEN [err |-> "invalid hash string", bytes |-> NoBytes, tx |-> NoTx,
              calls |-> <<>>, sent |-> <<>>]
        ELSE IF redeemScript = <<>>
        THEN [err |-> "panic", bytes |-> NoBytes, tx |-> t0, calls |-> <<>>, sent |-> <<>>]
        ELSE IF ShouldBroadcast(broadcast)
        THEN IF sendErr
             THEN [err |-> "sendrawtransaction failed", bytes |-> NoBytes, tx |-> t,
                   calls |-> <<RpcCall("sendrawtransaction", 0)>>, sent |-> <<t>>]
             ELSE [err |-> "nil", bytes |-> Serialize(t), tx |-> t,
                   calls |-> <<RpcCall("sendrawtransaction", 0)>>, sent |-> <<t>>]
        ELSE [err |-> "nil", bytes |-> Serialize(t), tx |-> t, calls |-> <<>>, sent |-> <<>>]

----------------------------------------------------------------------------
(* SweepAddress.  A utxo is [op (outpoint), value, script]; the redeem     *)
(* script argument is a pointer: [nil, s].  env holds the daemon's         *)
(* answers: currentAddr to getaccountaddress (NoAddr when that call        *)
(* fails), feeErr and feeResp to estimatefee, sendErr to                   *)
(* sendrawtransaction.                                                     *)

NilScript == [nil |-> TRUE, s |-> <<>>]
ScriptPtr(sc) == [nil |-> FALSE, s |-> sc]

\* additionalPrevScripts[outpoint]: the script of the last utxo with that outpoint
RECURSIVE PrevScript(_, _)
PrevScript(utxos, outpoint) ==
    IF utxos = <<>> THEN NoAddr
    ELSE IF utxos[Len(utxos)].op = outpoint THEN utxos[Len(utxos)].script
    ELSE PrevScript(SubSeq(utxos, 1, Len(utxos) - 1), outpoint)

\* txscript.SignTxOutput with the wallet's key closure: only a pay-to-pubkey-hash
\* script of the key signs; the signature script commits to the transaction
SignTxOutput(t, idx, prevOutScript, priv) ==
    IF prevOutScript.kind = "p2pkh" /\ prevOutScript.key = priv
    THEN [err |-> "nil",
          sig |-> [key |-> priv,
                   digest |-> [NoDigest EXCEPT !.idx = idx,
                                               !.outpoint = t.ins[idx + 1].outpoint,
                                               !.sequence = t.ins[idx + 1].sequence,
                                               !.version = t.version,
                                               !.outs = t.outs]]]
    ELSE [err |-> "Failed to sign transaction", sig |-> NoSig]

\* the size class SweepAddress estimates the fee under
SweepTxType(redeemScript) ==
    IF redeemScript.nil THEN "P2PKH"
    ELSE IF LockTimeFromRedeemScript(redeemScript.s).err = "nil"
    THEN "P2SH_Multisig_Timelock_1Sig"
    ELSE "P2SH_1of2_Multisig"

\* an outVal that is not pinned
SweepOutValUnpinned(val, fee) == val - fee

\* outVal: the swept value less the fee, pinned to zero
SweepOutVal(val, fee) == IF val - fee < 0 THEN 0 ELSE val - fee

\* the witness SweepAddress gives an input
SweepWitness(sig, timeLocked, redeemScript) ==
    (IF timeLocked THEN <<ItemSig(sig), ItemEmpty>> ELSE <<ItemEmpty, ItemSig(sig)>>)
        \o <<ItemScript(redeemScript)>>

SweepRet(e, t, calls, sentTxs) ==
    [err |-> e, txid |-> IF e = "nil" THEN TxHash(t) ELSE TxHash(NoTx),
     tx |-> t, calls |-> calls, sent |-> sentTxs]

SweepAddress(utxos, address, key, redeemScript, feeLevel, env) ==
    LET calls0 == IF address = NoAddr THEN <<RpcCall("getaccountaddress", 0)>> ELSE <<>>
        internalAddr == IF address # NoAddr THEN address ELSE env.currentAddr
        val == SumSeq([i \in 1..Len(utxos) |-> utxos[i].value])
        inputs == [i \in 1..Len(utxos) |-> NewTxIn(utxos[i].op)]
        out == NewTxOut(val, internalAddr)
        estimatedSize == EstimateSerializeSize(Len(utxos), <<out>>, FALSE,
                                               SweepTxType(redeemScript))
        f == GetFeePerByte(feeLevel, env.feeErr, env.feeResp)
        calls1 == calls0 \o f.calls
        fee == estimatedSize * f.fee
        t1 == InPlaceSort([version |-> TxVersion, ins |-> inputs,
                           outs |-> <<[out EXCEPT !.value = SweepOutVal(val, fee)]>>,
                           locktime |-> 0])
        priv == ECPrivKey(key)
        timeLocked == ~redeemScript.nil /\ redeemScript.s[1].op = OP_IF
        lock == LockTimeFromRedeemScript(redeemScript.s)
        t2 == IF redeemScript.nil THEN t1
              ELSE [t1 EXCEPT !.version = IF timeLocked THEN 2 ELSE t1.version,
                              !.ins = [i \in 1..Len(t1.ins) |->
                                          [t1.ins[i] EXCEPT !.sequence = ToU32(lock.val)]]]
        signed(i) == IF redeemScript.nil
                     THEN SignTxOutput(t2, i - 1, PrevScript(utxos, t2.ins[i].outpoint),
                                       priv.priv)
                     ELSE RawTxInWitnessSignature(t2, i - 1, utxos[i].value,
                                                  redeemScript.s, priv.priv)
        t3 == [t2 EXCEPT !.ins = [i \in 1..Len(t2.ins) |->
                  IF redeemScript.nil
                  THEN [t2.ins[i] EXCEPT !.sigScript = signed(i).sig]
                  ELSE [t2.ins[i] EXCEPT !.witness =
                           SweepWitness(signed(i).sig, timeLocked, redeemScript.s)]]]
    IN  IF internalAddr = NoAddr
        THEN SweepRet("unsupported address type", NoTx, calls0, <<>>)
        ELSE IF priv.err # "nil"
        THEN SweepRet(priv.err, t1, calls1, <<>>)
        ELSE IF ~redeemScript.nil /\ redeemScript.s = <<>>
        THEN SweepRet("panic", t1, calls1, <<>>)
        ELSE IF ~redeemScript.nil /\ Len(t1.ins) > 0 /\ lock.err # "nil"
        THEN SweepRet(lock.err, t1, calls1, <<>>)
        ELSE IF \E i \in 1..Len(t2.ins) : signed(i).err # "nil"
        THEN SweepRet(IF redeemScript.nil THEN "Failed to sign transaction"
                      ELSE "cannot parse output script", t2, calls1, <<>>)
        ELSE IF env.sendErr
        THEN SweepRet("sendrawtransaction failed", t3,
                      Append(calls1, RpcCall("sendrawtransaction", 0)), <<t3>>)
        ELSE SweepRet("nil", t3, Append(calls1, RpcCall("sendrawtransaction", 0)), <<t3>>)

----------------------------------------------------------------------------
(* BumpFee.  The daemon answers gettransaction with (getErr,               *)
(* confirmations) and listunspent with (listErr, unspent); an entry of     *)
(* unspent is [txid, vout, confirmations, amount (in coins: [coins, sat],  *)
(* the whole coins and the fraction in base units),                        *)
(* script (its scriptPubKey), scriptOk (the scriptPubKey is valid hex),    *)
(* addrOk (its address decodes), key (the key of its address), dumpOk      *)
(* (dumpprivkey gives the key)].                                           *)

\* int64(u.Amount / 100000000), u.Amount being in coins
BumpUtxoValue(amount) == amount.coins \div 100000000

\* a test that lets one confirmation pass
TxConfirmedTwice(confirmations) == confirmations > 1

\* the test that stops the bump: the transaction is already mined
TxConfirmed(confirmations) == confirmations > 0

\* the loop over listunspent from entry i on: what it ends with.
\* [kind: "confirmed" | "notfound" | "sweep", u: the entry swept, calls]
RECURSIVE BumpScan(_, _, _, _)
BumpScan(unspent, txid, i, calls) ==
    IF i > Len(unspent) THEN [kind |-> "notfound", u |-> 0, calls |-> calls]
    ELSE LET u == unspent[i] IN
         IF u.txid # txid THEN BumpScan(unspent, txid, i + 1, calls)
         ELSE IF TxConfirmed(u.confirmations)
         THEN [kind |-> "confirmed", u |-> 0, calls |-> calls]
         ELSE IF ~u.scriptOk \/ ~u.addrOk THEN BumpScan(unspent, txid, i + 1, calls)
         ELSE IF ~u.dumpOk
         THEN BumpScan(unspent, txid, i + 1, Append(calls, RpcCall("dumpprivkey", 0)))
         ELSE [kind |-> "sweep", u |-> i, calls |-> Append(calls, RpcCall("dumpprivkey", 0))]

\* the fee level BumpFee sweeps with
BumpFeeLevel == "FEE_BUMP"

BumpFee(txid, daemon, env) ==
    LET c1 == <<RpcCall("gettransaction", 0)>>
        c2 == Append(c1, RpcCall("listunspent", 0))
        scan == BumpScan(daemon.unspent, txid, 1, c2)
        u == daemon.unspent[scan.u]
        utxo == [op |-> [hash |-> u.txid, index |-> u.vout],
                 value |-> BumpUtxoValue(u.amount),
                 script |-> u.script]
        sw == SweepAddress(<<utxo>>, NoAddr, ExtKey(u.key, TRUE, TRUE), NilScript,
                           BumpFeeLevel, env)
    IN  IF daemon.getErr THEN SweepRet("gettransaction failed", NoTx, c1, <<>>)
        ELSE IF TxConfirmed(daemon.confirmations)
        THEN SweepRet("Transaction is confirmed, cannot bump fee", NoTx, c1, <<>>)
        ELSE IF daemon.listErr THEN SweepRet("listunspent failed", NoTx, c2, <<>>)
        ELSE IF scan.kind = "confirmed"
        THEN SweepRet("Transaction is confirmed, cannot bump fee", NoTx, scan.calls, <<>>)
        ELSE IF scan.kind = "notfound"
        THEN SweepRet("Transaction either doesn't exist or has already been spent", NoTx,
                      scan.calls, <<>>)
        ELSE [sw EXCEPT !.calls = scan.calls \o sw.calls]

----------------------------------------------------------------------------
(* buildTx and Spend.  The daemon answers listunspent with (listErr,       *)
(* unspent); an entry is [op, value (base units, the amount in coins times *)
(* 100000000), confirmations, script,                                      *)
(* spendable, addrOk, key, dumpOk].  order is the order the coin selector's *)
(* sort leaves the gathered coins in.                                      *)

\* txrules.DefaultRelayFeePerKb
DefaultRelayFeePerKb == 1000
\* MinChangeAmount of the coin selector
MinChangeAmount == 10000
\* MaxInputs of the coin selector
MaxInputs == 10000

\* txrules.IsDustAmount
IsDustAmount(amount, scriptSize, relayFeePerKb) ==
    LET totalSize == 8 + VarIntSerializeSize(scriptSize) + scriptSize + 148
    IN  (amount * 1000) \div (3 * totalSize) < relayFeePerKb

\* txrules.FeeForSerializeSize
FeeForSerializeSize(relayFeePerKb, txSerializeSize) ==
    LET fee == (relayFeePerKb * txSerializeSize) \div 1000
    IN  IF fee = 0 /\ relayFeePerKb > 0 THEN relayFeePerKb ELSE fee

\* gatherCoins: fails at the first spendable entry whose address does not
\* decode or whose key the daemon does not export: [err, coins, calls]
RECURSIVE GatherCoins(_, _, _, _)
GatherCoins(unspent, i, coins, calls) ==
    IF i > Len(unspent) THEN [err |-> "nil", coins |-> coins, calls |-> calls]
    ELSE LET u == unspent[i] IN
         IF ~u.spendable THEN GatherCoins(unspent, i + 1, coins, calls)
         ELSE IF ~u.addrOk THEN [err |-> "decoded address failed", coins |-> <<>>, calls |-> calls]
         ELSE IF ~u.dumpOk
         THEN [err |-> "dumpprivkey failed", coins |-> <<>>,
               calls |-> Append(calls, RpcCall("dumpprivkey", 0))]
         ELSE GatherCoins(unspent, i + 1, Append(coins, u),
                          Append(calls, RpcCall("dumpprivkey", 0)))

\* Coin.ValueAge
ValueAge(c) == c.value * c.confirmations

\* the orders sort.Sort(sort.Reverse(byValueAge)) may leave the coins in
SortedOrders(coins) ==
    {o \in [1..Len(coins) -> 1..Len(coins)] :
        /\ \A i, j \in 1..Len(coins) : i # j => o[i] # o[j]
        /\ \A i \in 1..(Len(coins) - 1) : ValueAge(coins[o[i]]) >= ValueAge(coins[o[i + 1]])}

\* coinset.satisfiesTargetValue
SatisfiesTargetValue(targetValue, minChange, totalValue) ==
    totalValue = targetValue \/ totalValue >= targetValue + minChange

\* MinIndexCoinSelector.CoinSelect: the shortest prefix of the sorted coins
\* that satisfies the target, or none: [ok, coins]
RECURSIVE CoinSelect(_, _, _)
CoinSelect(targetValue, sorted, n) ==
    IF n > Len(sorted) \/ n > MaxInputs THEN [ok |-> FALSE, coins |-> <<>>]
    ELSE IF SatisfiesTargetValue(targetValue, MinChangeAmount,
                                 SumSeq([i \in 1..n |-> sorted[i].value]))
    THEN [ok |-> TRUE, coins |-> SubSeq(sorted, 1, n)]
    ELSE CoinSelect(targetValue, sorted, n + 1)

\* spvwallet.NewUnsignedTransaction: select inputs for the target and the
\* fee, raise the fee to that of the size with the inputs selected and select
\* again until the inputs cover it: [err, coins, fee, change]
RECURSIVE AuthorTx(_, _, _, _, _)
AuthorTx(out, feePerKb, sorted, targetFee, fuel) ==
    LET sel == CoinSelect(out.value + targetFee, sorted, 1)
        inputAmount == SumSeq([i \in 1..Len(sel.coins) |-> sel.coins[i].value])
        maxSignedSize == EstimateSerializeSize(Len(sel.coins), <<out>>, TRUE, "P2PKH")
        maxRequiredFee == FeeForSerializeSize(feePerKb, maxSignedSize)
        changeAmount == inputAmount - out.value - maxRequiredFee
    IN  IF ~sel.ok \/ fuel = 0
        THEN [err |-> "ErrorInsuffientFunds", coins |-> <<>>, fee |-> 0, change |-> 0]
        ELSE IF inputAmount - out.value < maxRequiredFee
        THEN AuthorTx(out, feePerKb, sorted, maxRequiredFee, fuel - 1)
        ELSE [err |-> "nil", coins |-> sel.coins, fee |-> maxRequiredFee,
              change |-> IF changeAmount # 0
                            /\ ~IsDustAmount(changeAmount, 25, DefaultRelayFeePerKb)
                         THEN changeAmount ELSE 0]

\* the signing loop of buildTx from input i (1-based) of the sorted
\* transaction on.  The key closure finds the key whose address is that of the
\* input's previous script among the keys of the selected coins, and
\* dereferences a nil pointer when there is none: [err, tx]
RECURSIVE BuildSign(_, _, _)
BuildSign(t, coins, i) ==
    IF i > Len(t.ins) THEN [err |-> "nil", tx |-> t]
    ELSE LET prevOutScript ==
                 (CHOOSE k \in 1..Len(coins) : coins[k].op = t.ins[i].outpoint) 
             c == coins[prevOutScript]
             haveKey == \E j \in 1..Len(coins) : coins[j].key = c.script.key
             r == SignTxOutput(t, i - 1, c.script, c.script.key)
         IN  IF c.script.kind # "p2pkh" THEN [err |-> "Failed to sign transaction", tx |-> t]
             ELSE IF ~haveKey THEN [err |-> "panic", tx |-> t]
             ELSE BuildSign([t EXCEPT !.ins[i].sigScript = r.sig], coins, i + 1)

BuildRet(e, t, calls) == [err |-> e, tx |-> t, calls |-> calls]

\* buildTx(amount, addr, feeLevel): [err, tx, calls]
BuildTx(amount, addr, feeLevel, env) ==
    LET out == NewTxOut(amount, addr)
        g == GatherCoins(env.unspent, 1, <<>>, <<RpcCall("listunspent", 0)>>)
        sorted == [i \in 1..Len(g.coins) |-> g.coins[env.order[i]]]
        f == GetFeePerByte(feeLevel, env.feeErr, env.feeResp)
        feePerKB == f.fee * 1000
        calls1 == g.calls \o f.calls
        estimatedSize == EstimateSerializeSize(1, <<out>>, TRUE, "P2PKH")
        a == AuthorTx(out, feePerKB, sorted, FeeForSerializeSize(feePerKB, estimatedSize),
                      Len(sorted) + 1)
        calls2 == IF a.err = "nil" /\ a.change # 0
                  THEN Append(calls1, RpcCall("getaccountaddress", 0)) ELSE calls1
        ins == [i \in 1..Len(a.coins) |-> [NewTxIn(a.coins[i].op) EXCEPT !.sequence = ToU32(0)]]
        outs == IF a.change # 0 THEN <<out, NewTxOut(a.change, env.currentAddr)>> ELSE <<out>>
        t == InPlaceSort([version |-> TxVersion, ins |-> ins, outs |-> outs, locktime |-> 0])
        sg == BuildSign(t, a.coins, 1)
    IN  IF IsDustAmount(amount, PkScriptLen(addr), DefaultRelayFeePerKb)
        THEN BuildRet("ErrorDustAmount", NoTx, <<>>)
        ELSE IF env.listErr THEN BuildRet("listunspent failed", NoTx, <<RpcCall("listunspent", 0)>>)
        ELSE IF g.err # "nil" THEN BuildRet(g.err, NoTx, g.calls)
        ELSE IF a.err # "nil" THEN BuildRet(a.err, NoTx, calls1)
        ELSE IF a.change # 0 /\ env.currentAddr = NoAddr
        THEN BuildRet("unsupported address type", NoTx, calls2)
        ELSE BuildRet(sg.err, sg.tx, calls2)

\* a Spend that sends whatever buildTx returned
SpendSendsAnyway(buildErr) == TRUE

\* Spend: the transaction is sent only when buildTx returned no error
SpendSends(buildErr) == buildErr = "nil"

\* Spend(amount, addr, feeLevel): [err, txid, tx, calls, sent]
Spend(amount, addr, feeLevel, env) ==
    LET b == BuildTx(amount, addr, feeLevel, env) IN
    IF ~SpendSends(b.err) THEN SweepRet(b.err, b.tx, b.calls, <<>>)
    ELSE IF env.sendErr
    THEN SweepRet("sendrawtransaction failed", b.tx,
                  Append(b.calls, RpcCall("sendrawtransaction", 0)), <<b.tx>>)
    ELSE SweepRet("nil", b.tx, Append(b.calls, RpcCall("sendrawtransaction", 0)), <<b.tx>>)

----------------------------------------------------------------------------
(* The inputs the operations are run on *)

K1 == ExtKey(1, TRUE, TRUE)
K2 == ExtKey(2, TRUE, TRUE)
K3 == ExtKey(3, TRUE, TRUE)
\* a neutered (public) key
K1Pub == ExtKey(1, FALSE, TRUE)
\* a key whose bytes are no point of the curve
KBad == ExtKey(4, FALSE, FALSE)
\* the timeout key of the escrow
KTimeout == ExtKey(5, FALSE, TRUE)

\* escrow timeouts, in minutes: none, half an hour, 1 h, 90 min, 24 h
Timeouts == {0, 30, 60, 90, 1440}

\* redeem scripts: 2-of-3, 1-of-2, 2-of-3 with a 24 h and with a 1 h lock, a
\* time-locked 2-of-2 (too short for LockTimeFromRedeemScript), a script with
\* a truncated data push, and the empty script
RsPlain == GenerateMultisigScript(<<K1, K2, K3>>, 2, 0, NilKey).script
Rs1of2 == GenerateMultisigScript(<<K1, K2>>, 1, 0, NilKey).script
RsLock == GenerateMultisigScript(<<K1, K2, K3>>, 2, 1440, KTimeout).script
RsLock1h == GenerateMultisigScript(<<K1, K2, K3>>, 2, 60, KTimeout).script
RsLockShort == GenerateMultisigScript(<<K1, K2>>, 2, 60, KTimeout).script
RsTruncated == <<[op |-> 33, len |-> 0, data |-> 0]>>
RsEmpty == <<>>

\* answers of the daemon to estimatefee used by the operations that price a
\* transaction: 5000 and 500 base units per kB, and a float
FeeAnswers == {<<"5", "0", "0", "0">>, <<"5", "0", "0">>, <<"0", ".", "5">>}

\* injective sequences over S of length 0..n
InjSeqs(S, n) ==
    {q \in SeqsUpTo(S, n) : \A i, j \in 1..Len(q) : i # j => q[i] # q[j]}

\* inputs of CreateMultisigSignature / Multisign: distinct outpoints, one
\* with a 33-byte hash
TxInput(h, i, v, l) == [hash |-> h, index |-> i, value |-> v, hashLen |-> l]
InputPool == {TxInput(1, 0, 60000, 32), TxInput(2, 0, 50000, 32), TxInput(3, 0, 40000, 33)}
OutputPool == {NewTxOut(50000, P2PKHAddr(7)), NewTxOut(300, P2PKHAddr(8)),
               NewTxOut(20000, P2WSH(Rs1of2))}

\* utxos handed to SweepAddress
Utxo(h, i, v, sc) == [op |-> [hash |-> h, index |-> i], value |-> v, script |-> sc]
UtxoPool == {Utxo(1, 0, 60000, P2PKHAddr(1)), Utxo(2, 0, 5000, P2PKHAddr(1)),
             Utxo(3, 0, 30000, P2PKHAddr(2))}

\* entries of listunspent for the coins of Spend
Coin(h, v, c, sc, sp, ao, k, d) ==
    [op |-> [hash |-> h, index |-> 0], value |-> v, confirmations |-> c, script |-> sc,
     spendable |-> sp, addrOk |-> ao, key |-> k, dumpOk |-> d]
CoinPool == {Coin(1, 600000, 3, P2PKHAddr(1), TRUE, TRUE, 1, TRUE),
             Coin(2, 600000, 3, P2PKHAddr(2), TRUE, TRUE, 2, TRUE),
             Coin(3, 600000, 1, P2WSH(RsPlain), TRUE, TRUE, 3, TRUE),
             Coin(4, 600000, 1, P2PKHAddr(4), FALSE, TRUE, 4, TRUE),
             Coin(5, 600000, 1, P2PKHAddr(5), TRUE, TRUE, 5, FALSE),
             Coin(6, 600000, 1, P2PKHAddr(6), TRUE, TRUE, 7, TRUE)}

\* the return values of an operation that returned none
Ret0 == [fee |-> 0, sigs |-> <<>>, bytes |-> NoBytes, txid |-> TxHash(NoTx),
         addr |-> NoAddr, script |-> <<>>]

----------------------------------------------------------------------------
(* The parts of the system beside the wallet operations, as they are       *)
(* before anything ran                                                     *)

\* an inbound stream just handed to HandleNewStream: nothing read, not
\* closed, not bound to a sender.  pc is where handleNewMessage stands, log
\* what it did: the messages read, the handlers run, the replies written
Svc0 == [pc |-> "accept", banned |-> FALSE, bound |-> FALSE, closed |-> FALSE,
         deferred |-> FALSE, cur |-> "none", reply |-> "none", nread |-> 0, log |-> <<>>]

\* the two goroutines that call SendRequest for the same peer
Callers == {1, 2}

\* the sender pool with no sender for the peer yet, and no call made.
\* created: the pool holds the peer's sender; lk: the caller holding its
\* mutex (0: free); stream: its stream (0: nil); invalid: its flag;
\* opened: the streams opened so far (they are numbered); dead: the streams
\* the network has reset; wire: the frames put on the streams, in order;
\* pc, used, res: where the call of each caller stands, its stream and its
\* result; ncalls: the calls each caller has made
Snd0 == [created |-> FALSE, lk |-> 0, stream |-> 0, invalid |-> FALSE, opened |-> 0,
         dead |-> {}, wire |-> <<>>,
         ncalls |-> [c \in Callers |-> 0],
         pc |-> [c \in Callers |-> "idle"],
         used |-> [c \in Callers |-> 0],
         res |-> [c \in Callers |-> "none"]]

\* calls of AddWatchedScript made by the rest of the node, one goroutine each
MaxScripts == 2

\* the wallet before Start.  pc: where Start stands; started and
\* scriptsToAdd: the fields of the wallet; ticker: the 30-second ticker
\* ("none", "running", "stopped"); tick: a tick waits in its channel; polled:
\* a getBlockCount poll has succeeded; fatal: log.Fatal has ended the
\* process, and whether a poll had succeeded by then; drain: the addScripts
\* goroutine ("none", "spawned", "ranging", "done"), the slice it ranges
\* over and its position; imports: the importaddress calls made, as
\* [script, rescan]; call: where each AddWatchedScript call stands ("idle",
\* "sawStopped", "sawStarted", "done"); failed polls are counted
Life0 == [pc |-> "init", started |-> FALSE, scriptsToAdd |-> <<>>, ticker |-> "none",
          tick |-> FALSE, polled |-> FALSE, fatal |-> FALSE, fatalAfterSuccess |-> FALSE,
          drain |-> "none", ranged |-> <<>>, i |-> 0, imports |-> <<>>, npolls |-> 0,
          call |-> [j \in 1..MaxScripts |-> "idle"],
          callErr |-> [j \in 1..MaxScripts |-> "none"]]

\* a file that does not exist, and a file with its content
Absent == [exists |-> FALSE, data |-> <<>>]
File(data) == [exists |-> TRUE, data |-> data]

\* no repo directory has been handed to a migration yet.  files: the
\* directory; log: the migrations run on it, each with its error and the
\* directory before and after it
Repo0 == [open |-> FALSE,
          files |-> [repover |-> Absent, swarmkey |-> Absent, datastore |-> Absent],
          log |-> <<>>]

\* no value has been handed to wrap or Serialize yet
Note0 == [op |-> "none", in |-> [type |-> "none"], out |-> [envelope |-> "none"]]

\* the currency codes asked for; the cache holds a rate or nothing for each
Codes == {"PHR", "USD"}
NoRate == [ok |-> FALSE, val |-> 0]
Rate(v) == [ok |-> TRUE, val |-> v]

\* the caller of the fetcher before its first call
NoCall == [pc |-> "idle", op |-> "none", code |-> "none", rate |-> 0, err |-> "nil",
           before |-> [c \in Codes |-> NoRate], after |-> [c \in Codes |-> NoRate],
           fetched0 |-> 0, fetched1 |-> 0, own |-> 0, ownOk |-> FALSE, got |-> 0]

\* the fetcher as NewBitcoinPriceFetcher leaves it.  cache: b.cache, shared
\* with the providers; nfetch: the refreshes run so far; stamp: the refresh
\* that wrote cache["PHR"] last; trace: what each provider tried by the last
\* refresh answered, and the error of its fetch; crashed: a panic has ended
\* the process; call: the call of the one caller.  Every critical section
\* of b's mutex is one step, so the mutex itself is not kept
Xr0 == [cache |-> [c \in Codes |-> NoRate], nfetch |-> 0, stamp |-> 0, trace |-> <<>>,
        crashed |-> FALSE, call |-> NoCall]

----------------------------------------------------------------------------
(* The state machine *)

\* the wallet after construction, no operation run yet
WalletInit ==
    /\ op = "none"
    /\ args = [none |-> TRUE]
    /\ err = "nil"
    /\ ret = Ret0
    /\ tx = NoTx
    /\ rpc = <<>>
    /\ sent = <<>>

Init ==
    /\ WalletInit
    /\ svc = Svc0
    /\ snd = Snd0
    /\ life = Life0
    /\ repo = Repo0
    /\ note = Note0
    /\ xr = Xr0

\* no operation is in progress: the wallet keeps no state between the operations
Idle == op = "none"

\* an operation ran: what the state records of it
Ran(o, a, e, r, t, calls, sentTxs) ==
    /\ op' = o
    /\ args' = a
    /\ err' = e
    /\ ret' = r
    /\ tx' = t
    /\ rpc' = calls
    /\ sent' = sentTxs
    /\ UNCHANGED <<svc, snd, life, repo, note, xr>>

DoGetFeePerByte ==
    /\ Idle
    /\ \E feeLevel \in FeeLevels, rpcErr \in BOOLEAN, resp \in SeqsUpTo(RespChars, MaxRespLen) :
        /\ rpcErr => resp = <<>>
        /\ \E r \in {GetFeePerByte(feeLevel, rpcErr, resp)} :
               Ran("GetFeePerByte",
                   [feeLevel |-> feeLevel, rpcErr |-> rpcErr, resp |-> resp],
                   "nil", [Ret0 EXCEPT !.fee = r.fee], NoTx, r.calls, <<>>)

DoGenerateMultisigScript ==
    /\ Idle
    /\ \E keys \in SeqsUpTo({K1, K2, KBad}, MaxKeys), threshold \in 0..(MaxKeys + 1),
       timeout \in Timeouts, timeoutKey \in {NilKey, KTimeout, KBad} :
        \E r \in {GenerateMultisigScript(keys, threshold, timeout, timeoutKey)} :
            Ran("GenerateMultisigScript",
                [keys |-> keys, threshold |-> threshold, timeout |-> timeout,
                 timeoutKey |-> timeoutKey],
                r.err, [Ret0 EXCEPT !.addr = r.addr, !.script = r.script], NoTx, <<>>, <<>>)

DoCreateMultisigSignature ==
    /\ Idle
    /\ \E ins \in InjSeqs(InputPool, MaxIns), outs \in SeqsUpTo(OutputPool, MaxOuts),
       key \in {K1, K1Pub}, redeemScript \in {RsPlain, RsLock, RsLockShort, RsTruncated},
       feePerByte \in 0..MaxFeeRate :
        \E r \in {CreateMultisigSignature(ins, outs, key, redeemScript, feePerByte)} :
            Ran("CreateMultisigSignature",
                [ins |-> ins, outs |-> outs, key |-> key, redeemScript |-> redeemScript,
                 feePerByte |-> feePerByte],
                r.err, [Ret0 EXCEPT !.sigs = r.sigs], r.tx, r.calls, <<>>)

\* ways the second party's signatures may reach Multisign: as made, reversed,
\* or without the first
SigLists(sigs) ==
    {sigs, [i \in 1..Len(sigs) |-> sigs[Len(sigs) + 1 - i]],
     IF sigs = <<>> THEN <<>> ELSE Tail(sigs)}

DoMultisign ==
    /\ Idle
    /\ \E ins \in InjSeqs(InputPool, MaxIns), outs \in SeqsUpTo(OutputPool, MaxOuts),
       redeemScript \in {RsPlain, RsLock, RsLockShort, RsEmpty},
       feePerByte \in 0..MaxFeeRate, broadcast \in BOOLEAN, sendErr \in BOOLEAN :
        /\ sendErr => broadcast
        /\ \E sigs1 \in {CreateMultisigSignature(ins, outs, K1, redeemScript, feePerByte).sigs},
              sigs2 \in SigLists(CreateMultisigSignature(ins, outs, K2, redeemScript,
                                                         feePerByte).sigs) :
            \E r \in {Multisign(ins, outs, sigs1, sigs2, redeemScript, feePerByte,
                               broadcast, sendErr)} :
                Ran("Multisign",
                    [ins |-> ins, outs |-> outs, sigs1 |-> sigs1, sigs2 |-> sigs2,
                     redeemScript |-> redeemScript, feePerByte |-> feePerByte,
                     broadcast |-> broadcast, sendErr |-> sendErr],
                    r.err, [Ret0 EXCEPT !.bytes = r.bytes], r.tx, r.calls, r.sent)

DoSweepAddress ==
    /\ Idle
    /\ \E utxos \in InjSeqs(UtxoPool, MaxIns), address \in {NoAddr, P2PKHAddr(9)},
       key \in {K1, K1Pub},
       redeemScript \in {NilScript, ScriptPtr(Rs1of2), ScriptPtr(RsLock), ScriptPtr(RsLock1h),
                         ScriptPtr(RsLockShort), ScriptPtr(RsTruncated), ScriptPtr(RsEmpty)},
       feeLevel \in FeeLevels, currentAddr \in {NoAddr, P2PKHAddr(8)},
       feeErr \in BOOLEAN, feeResp \in FeeAnswers, sendErr \in BOOLEAN :
        /\ address # NoAddr => currentAddr = NoAddr
        /\ feeErr => feeResp = <<"5", "0", "0", "0">>
        /\ \E env \in {[currentAddr |-> currentAddr, feeErr |-> feeErr,
                          feeResp |-> feeResp, sendErr |-> sendErr]} :
           \E r \in {SweepAddress(utxos, address, key, redeemScript, feeLevel, env)} :
               Ran("SweepAddress",
                   [utxos |-> utxos, address |-> address, key |-> key,
                    redeemScript |-> redeemScript, feeLevel |-> feeLevel, env |-> env],
                   r.err, [Ret0 EXCEPT !.txid = r.txid], r.tx, r.calls, r.sent)

\* the outputs of the transaction BumpFee is asked to bump
TxVouts == {0, 1}

\* what listunspent says of an unspent output of the wallet: all fine (0.6
\* coin, and 200 000 000 coins), no key exported, an address that does not
\* decode, a scriptPubKey that is no hex, and a confirmation seen meanwhile
EntryKinds == {"ok", "big", "nodump", "noaddr", "nohex", "mined"}

UnspentEntry(txid, vout, kind) ==
    [txid |-> txid, vout |-> vout,
     confirmations |-> IF kind = "mined" THEN 1 ELSE 0,
     amount |-> IF kind = "big" THEN [coins |-> 200000000, sat |-> 0]
                ELSE [coins |-> 0, sat |-> 60000000],
     script |-> P2PKHAddr(1), scriptOk |-> kind # "nohex", addrOk |-> kind # "noaddr",
     key |-> 1, dumpOk |-> kind # "nodump"]

\* listunspent: the wallet's unspent outputs, those of the transaction in
\* the order of their index
RECURSIVE UnspentOf(_, _, _, _)
UnspentOf(txid, status, kinds, v) ==
    IF v \notin TxVouts THEN <<>>
    ELSE (IF status[v] = "mine" THEN <<UnspentEntry(txid, v, kinds[v])>> ELSE <<>>)
             \o UnspentOf(txid, status, kinds, v + 1)

DoBumpFee ==
    /\ Idle
    /\ \E status \in [TxVouts -> {"spent", "mine", "other"}], kinds \in [TxVouts -> EntryKinds],
       foreign \in BOOLEAN, mode \in {"getErr", "mined", "listErr", "ok"},
       currentAddr \in {NoAddr, P2PKHAddr(8)}, sendErr \in BOOLEAN :
        /\ \A v \in TxVouts : status[v] # "mine" => kinds[v] = "ok"
        /\ \E daemon \in {[getErr |-> mode = "getErr",
                             confirmations |-> IF mode = "mined" THEN 1 ELSE 0,
                             listErr |-> mode = "listErr",
                             outs |-> status,
                             unspent |-> (IF foreign THEN <<UnspentEntry(2, 0, "ok")>>
                                          ELSE <<>>) \o UnspentOf(1, status, kinds, 0)]},
              env \in {[currentAddr |-> currentAddr, feeErr |-> FALSE,
                        feeResp |-> <<"5", "0", "0", "0">>, sendErr |-> sendErr]} :
           \E r \in {BumpFee(1, daemon, env)} :
               Ran("BumpFee", [txid |-> 1, daemon |-> daemon, env |-> env],
                   r.err, [Ret0 EXCEPT !.txid = r.txid], r.tx, r.calls, r.sent)

DoSpend ==
    /\ Idle
    /\ \E amount \in {500, 500000, 1000000, 1300000}, feeLevel \in FeeLevels,
       listErr \in BOOLEAN, unspent \in InjSeqs(CoinPool, MaxIns),
       feeErr \in BOOLEAN, feeResp \in FeeAnswers,
       currentAddr \in {NoAddr, P2PKHAddr(8)}, sendErr \in BOOLEAN :
        /\ feeErr => feeResp = <<"5", "0", "0", "0">>
        /\ listErr => unspent = <<>>
        /\ \E g \in {GatherCoins(unspent, 1, <<>>, <<>>)} :
           \E order \in SortedOrders(g.coins) :
           \E env \in {[listErr |-> listErr, unspent |-> unspent, order |-> order,
                        feeErr |-> feeErr, feeResp |-> feeResp,
                        currentAddr |-> currentAddr, sendErr |-> sendErr]} :
           \E r \in {Spend(amount, P2PKHAddr(9), feeLevel, env)} :
               Ran("Spend",
                       [amount |-> amount, addr |-> P2PKHAddr(9), feeLevel |-> feeLevel,
                        env |-> env],
                       r.err, [Ret0 EXCEPT !.txid = r.txid], r.tx, r.calls, r.sent)

\* the caller has taken the result
Return ==
    /\ ~Idle
    /\ Ran("none", [none |-> TRUE], "nil", Ret0, NoTx, <<>>, <<>>)

Next ==
    \/ DoGetFeePerByte
    \/ DoGenerateMultisigScript
    \/ DoCreateMultisigSignature
    \/ DoMultisign
    \/ DoSweepAddress
    \/ DoBumpFee
    \/ DoSpend
    \/ Return

Spec == Init /\ [][Next]_vars

----------------------------------------------------------------------------
(* The protocol service: handleNewMessage serving one inbound stream.  The *)
(* remote peer is the environment: what the ban manager says of it, what   *)
(* each read of the stream gives, what the handler of a message returns    *)
(* and whether the write of a reply succeeds are drawn at each step.       *)

\* messages read of one stream
MaxMsgs == 3

\* message types: two that have a handler, one that has none
MsgTypes == {"PING", "ORDER", "UNKNOWN"}

\* service.HandlerForMsgType(pmes.MessageType) is not nil
HandlerForMsgType(t) == t \in {"PING", "ORDER"}

\* an event of the log: what happened, to which message (by the order of
\* reading), of which type, and for a handler run what it returned
Event(e, n, t) == [ev |-> e, n |-> n, type |-> t, res |-> "none"]

\* a return that leaves the stream as it is
ReturnWithoutClose(s) == [s EXCEPT !.pc = "done"]

\* the deferred s.Close() runs when handleNewMessage returns
ReturnFromHandler(s) ==
    [s EXCEPT !.pc = "done", !.closed = s.closed \/ s.deferred]

\* lines 61-73: the ban check, then the binding of the stream into the
\* peer's message sender and the deferral of s.Close()
Accept ==
    /\ svc.pc = "accept"
    /\ \E isBanned \in BOOLEAN :
           svc' = IF isBanned
                  THEN ReturnFromHandler([svc EXCEPT !.banned = TRUE])
                  ELSE [svc EXCEPT !.bound = TRUE, !.deferred = TRUE, !.pc = "read"]
    /\ UNCHANGED <<walletVars, snd, life, repo, note, xr>>

\* lines 79-90: r.ReadMsg and the lookup of the handler
ReadMsg ==
    /\ svc.pc = "read"
    /\ svc.nread < MaxMsgs
    /\ \E readErr \in BOOLEAN, t \in MsgTypes :
           svc' = IF readErr
                  THEN ReturnFromHandler(
                           [svc EXCEPT !.log = Append(@, Event("readErr", svc.nread + 1, "none"))])
                  ELSE LET s1 == [svc EXCEPT !.nread = @ + 1, !.cur = t,
                                             !.log = Append(@, Event("read", svc.nread + 1, t))]
                       IN  IF HandlerForMsgType(t) THEN [s1 EXCEPT !.pc = "dispatch"]
                           ELSE ReturnFromHandler(s1)
    /\ UNCHANGED <<walletVars, snd, life, repo, note, xr>>

\* lines 92-102: the handler runs; an error ends the loop, a nil reply goes
\* on to the next read
\* a loop that goes on to the write whatever the handler returned
AfterHandlerWrites(s, result) == [s EXCEPT !.pc = "write"]

\* lines 94-102: what follows the handler's return
AfterHandler(s, result) ==
    CASE result = "err" -> ReturnFromHandler(s)
      [] result = "nil" -> [s EXCEPT !.pc = "read"]
      [] result = "reply" -> [s EXCEPT !.pc = "write"]

Dispatch ==
    /\ svc.pc = "dispatch"
    /\ \E result \in {"err", "nil", "reply"} :
           svc' = AfterHandler(
                      [svc EXCEPT !.log = Append(@, [Event("handle", svc.nread, svc.cur)
                                                         EXCEPT !.res = result]),
                                  !.reply = result],
                      result)
    /\ UNCHANGED <<walletVars, snd, life, repo, note, xr>>

\* lines 104-108: w.WriteMsg(rpmes) on the stream the request came from
WriteMsg ==
    /\ svc.pc = "write"
    /\ \E writeErr \in BOOLEAN :
           svc' = IF writeErr
                  THEN ReturnFromHandler(
                           [svc EXCEPT !.log = Append(@, Event("writeErr", svc.nread, svc.cur))])
                  ELSE [svc EXCEPT !.log = Append(@, Event("write", svc.nread, svc.cur)),
                                   !.pc = "read"]
    /\ UNCHANGED <<walletVars, snd, life, repo, note, xr>>

ServiceNext == Accept \/ ReadMsg \/ Dispatch \/ WriteMsg

ServiceSpec == Init /\ [][ServiceNext]_vars

----------------------------------------------------------------------------
(* SendRequest and the per-peer message sender.  SendRequest of the        *)
(* service is in the source; the sender (its mutex, its stream, its        *)
(* invalidation) is not, and follows the description of the message sender *)
(* pool: a serialization mutex, an initialization guard that opens the     *)
(* stream on first use, and invalidation on any read or write error.  The  *)
(* network is the environment: it may reset a stream at any time.          *)

\* the requests each caller sends, one after the other
MaxCalls == 2

\* a frame on a stream
Frame(st, c, kind) == [stream |-> st, caller |-> c, kind |-> kind]

\* line 114: service.messageSenderForPeer(p, nil), the pool's lookup or insert
SendRequestCall(c) ==
    /\ snd.pc[c] \in {"idle", "done"}
    /\ snd.ncalls[c] < MaxCalls
    /\ snd' = [snd EXCEPT !.created = TRUE, !.pc[c] = "lock", !.ncalls[c] = @ + 1,
                          !.used[c] = 0, !.res[c] = "none"]
    /\ UNCHANGED <<walletVars, svc, life, repo, note, xr>>

\* a mutex that lets everyone in
LockIsFreeAnyway(s, c) == TRUE

\* the sender's mutex is free
LockIsFree(s, c) == s.lk = 0

\* ms.SendRequest takes the sender's mutex
Lock(c) ==
    /\ snd.pc[c] = "lock"
    /\ LockIsFree(snd, c)
    /\ snd' = [snd EXCEPT !.lk = c, !.pc[c] = "prep"]
    /\ UNCHANGED <<walletVars, svc, life, repo, note, xr>>

\* the sender after a read or write error: marked invalid, stream closed
Invalidate(s) == [s EXCEPT !.invalid = TRUE, !.stream = 0]

\* lines 117-129: what SendRequest of the service returns for what the
\* sender returned
SendRequestResult(sendErr, rpmes) ==
    IF sendErr THEN "err"
    ELSE IF rpmes = "nil" THEN "no response from peer"
    ELSE rpmes

\* the call of caller c ends with an error of the stream
Fail(s, c) ==
    [Invalidate(s) EXCEPT !.lk = 0, !.pc[c] = "done",
                          !.res[c] = SendRequestResult(TRUE, "nil")]

\* the initialization guard: a stream is opened when the sender has none
Prep(c) ==
    /\ snd.pc[c] = "prep"
    /\ snd' = IF snd.stream = 0
              THEN [snd EXCEPT !.opened = @ + 1, !.stream = snd.opened + 1,
                               !.invalid = FALSE, !.used[c] = snd.opened + 1,
                               !.pc[c] = "write"]
              ELSE [snd EXCEPT !.used[c] = snd.stream, !.pc[c] = "write"]
    /\ UNCHANGED <<walletVars, svc, life, repo, note, xr>>

\* the request is written on the sender's stream; a reset stream gives an error
WriteRequest(c) ==
    /\ snd.pc[c] = "write"
    /\ snd' = IF snd.used[c] \in snd.dead
              THEN Fail(snd, c)
              ELSE [snd EXCEPT !.wire = Append(@, Frame(snd.used[c], c, "request")),
                               !.pc[c] = "read"]
    /\ UNCHANGED <<walletVars, svc, life, repo, note, xr>>

\* the reply is read off the stream, and the mutex released
ReadReply(c) ==
    /\ snd.pc[c] = "read"
    /\ snd' = IF snd.used[c] \in snd.dead
              THEN Fail(snd, c)
              ELSE [snd EXCEPT !.wire = Append(@, Frame(snd.used[c], c, "reply")),
                               !.lk = 0, !.pc[c] = "done",
                               !.res[c] = SendRequestResult(FALSE, "reply")]
    /\ UNCHANGED <<walletVars, svc, life, repo, note, xr>>

\* the network resets a stream
StreamReset ==
    /\ \E k \in 1..snd.opened :
           /\ k \notin snd.dead
           /\ snd' = [snd EXCEPT !.dead = @ \cup {k}]
    /\ UNCHANGED <<walletVars, svc, life, repo, note, xr>>

SenderNext ==
    \/ \E c \in Callers : SendRequestCall(c)
    \/ \E c \in Callers : Lock(c)
    \/ \E c \in Callers : Prep(c)
    \/ \E c \in Callers : WriteRequest(c)
    \/ \E c \in Callers : ReadReply(c)
    \/ StreamReset

SenderSpec == Init /\ [][SenderNext]_vars

----------------------------------------------------------------------------
(* The start of the wallet and the watched scripts.  Start, the goroutine  *)
(* of the ticker, the addScripts goroutine and the callers of              *)
(* AddWatchedScript run concurrently and share started and scriptsToAdd    *)
(* without a lock: each read and each write of them is a step.  The daemon *)
(* (the answers to getBlockCount) and the time (the ticks) are the         *)
(* environment.                                                            *)

\* polls that fail before the daemon answers
MaxPolls == 2

\* the script of call j; the last one is a script ExtractPkScriptAddrs refuses
ScriptOf(j) == [id |-> j, parses |-> j < MaxScripts \/ MaxScripts = 1]

\* log.Fatal has not ended the process
Alive == ~life.fatal

\* lines 110-123: Start spawns the daemon, creates the ticker and the
\* goroutine that waits for its ticks
StartBegin ==
    /\ Alive
    /\ life.pc = "init"
    /\ life' = [life EXCEPT !.pc = "poll", !.ticker = "running"]
    /\ UNCHANGED <<walletVars, svc, snd, repo, note, xr>>

\* lines 124-130: one poll of client.GetBlockCount()
Poll ==
    /\ Alive
    /\ life.pc = "poll"
    /\ \E ok \in BOOLEAN :
           /\ ~ok => life.npolls < MaxPolls
           /\ life' = IF ok THEN [life EXCEPT !.polled = TRUE, !.pc = "stop"]
                      ELSE [life EXCEPT !.npolls = @ + 1]
    /\ UNCHANGED <<walletVars, svc, snd, repo, note, xr>>

\* the ticker sends a tick: 30 seconds have passed since it was created or
\* since its last tick
Tick ==
    /\ Alive
    /\ life.ticker = "running"
    /\ ~life.tick
    /\ life' = [life EXCEPT !.tick = TRUE]
    /\ UNCHANGED <<walletVars, svc, snd, repo, note, xr>>

\* lines 119-123: the goroutine receives a tick and calls log.Fatal
TickerFatal ==
    /\ Alive
    /\ life.tick
    /\ life' = [life EXCEPT !.tick = FALSE, !.fatal = TRUE,
                            !.fatalAfterSuccess = life.polled]
    /\ UNCHANGED <<walletVars, svc, snd, repo, note, xr>>

\* line 131: ticker.Stop(): no more ticks are sent; the channel is not drained
TickerStop ==
    /\ Alive
    /\ life.pc = "stop"
    /\ life' = [life EXCEPT !.ticker = "stopped", !.pc = "mark"]
    /\ UNCHANGED <<walletVars, svc, snd, repo, note, xr>>

\* lines 133-134: w.started = true; go w.addScripts()
MarkStarted ==
    /\ Alive
    /\ life.pc = "mark"
    /\ life' = [life EXCEPT !.started = TRUE, !.pc = "up", !.drain = "spawned"]
    /\ UNCHANGED <<walletVars, svc, snd, repo, note, xr>>

\* line 138: addScripts evaluates w.scriptsToAdd, the slice it ranges over
AddScriptsRange ==
    /\ Alive
    /\ life.drain = "spawned"
    /\ life' = [life EXCEPT !.drain = IF life.scriptsToAdd = <<>> THEN "done" ELSE "ranging",
                            !.ranged = life.scriptsToAdd, !.i = 1]
    /\ UNCHANGED <<walletVars, svc, snd, repo, note, xr>>

\* lines 934-938: AddWatchedScript once it found the wallet started: the
\* importaddress calls after it, and its error
ImportScript(imports, script) ==
    IF ~script.parses THEN [imports |-> imports, err |-> "script does not parse"]
    ELSE [imports |-> Append(imports, [script |-> script, rescan |-> FALSE]), err |-> "nil"]

\* lines 138-140: addScripts calls AddWatchedScript for the next script; the
\* call reads started and imports or queues accordingly
AddScriptsStep ==
    /\ Alive
    /\ life.drain = "ranging"
    /\ LET script == life.ranged[life.i]
           after == IF life.i = Len(life.ranged) THEN "done" ELSE "ranging"
       IN  life' = IF life.started
                   THEN [life EXCEPT !.imports = ImportScript(@, script).imports,
                                     !.i = @ + 1, !.drain = after]
                   ELSE [life EXCEPT !.scriptsToAdd = Append(@, script),
                                     !.i = @ + 1, !.drain = after]
    /\ UNCHANGED <<walletVars, svc, snd, repo, note, xr>>

\* line 930: a caller of AddWatchedScript reads w.started
ReadStarted(j) ==
    /\ Alive
    /\ life.call[j] = "idle"
    /\ life' = [life EXCEPT !.call[j] = IF life.started THEN "sawStarted" ELSE "sawStopped"]
    /\ UNCHANGED <<walletVars, svc, snd, repo, note, xr>>

\* lines 931-932: not started: the script is appended to scriptsToAdd
QueueScript(j) ==
    /\ Alive
    /\ life.call[j] = "sawStopped"
    /\ life' = [life EXCEPT !.scriptsToAdd = Append(@, ScriptOf(j)),
                            !.call[j] = "done", !.callErr[j] = "nil"]
    /\ UNCHANGED <<walletVars, svc, snd, repo, note, xr>>

\* lines 934-938: started: the address of the script is imported
ImportNow(j) ==
    /\ Alive
    /\ life.call[j] = "sawStarted"
    /\ life' = [life EXCEPT !.imports = ImportScript(@, ScriptOf(j)).imports,
                            !.call[j] = "done",
                            !.callErr[j] = ImportScript(life.imports, ScriptOf(j)).err]
    /\ UNCHANGED <<walletVars, svc, snd, repo, note, xr>>

LifeNext ==
    \/ StartBegin
    \/ Poll
    \/ Tick
    \/ TickerFatal
    \/ TickerStop
    \/ MarkStarted
    \/ AddScriptsRange
    \/ AddScriptsStep
    \/ \E j \in 1..MaxScripts : ReadStarted(j)
    \/ \E j \in 1..MaxScripts : QueueScript(j)
    \/ \E j \in 1..MaxScripts : ImportNow(j)

LifeSpec == Init /\ [][LifeNext]_vars

----------------------------------------------------------------------------
(* Migration 005 of the repo: Up takes the repo from schema version 5 to   *)
(* 6, Down takes it back.  A directory is the three files the migration    *)
(* and its test name; the file system's failures are the environment.      *)

\* migrations run on one directory
MaxMigrations == 3

\* var swarmKeyData, line by line
swarmKeyData == <<"/key/swarm/psk/1.0.0/", "/base16/",
                  "59468cfd4d4dc2a61395080513e853434d0313495f34be65c18d643d09eafe6f">>

\* what repover and swarm.key may hold when a migration is called
RepoverStates == {Absent, File(<<>>), File(<<"5">>), File(<<"6">>), File(<<"5", "\n">>)}
SwarmKeyStates == {Absent, File(swarmKeyData), File(<<"/key/swarm/psk/1.0.0/", "/base16/", "00">>)}

\* os.Create: the file exists and is empty afterwards
Create(files, name) == [files EXCEPT ![name] = File(<<>>)]

\* f.Write on the handle os.Create returned
WriteNothing(files, name, data) == files
Write(files, name, data) == [files EXCEPT ![name] = File(@.data \o data)]

\* ioutil.WriteFile: creates or truncates, then writes
WriteFileIfAbsent(files, name, data) ==
    IF files[name].exists THEN files ELSE [files EXCEPT ![name] = File(data)]
WriteFile(files, name, data) == [files EXCEPT ![name] = File(data)]

\* os.Remove: its error, and the directory afterwards
RemoveErr(files, name) == IF files[name].exists THEN "nil" ELSE "no such file"
RemoveNothing(files, name) == files
Remove(files, name) == [files EXCEPT ![name] = Absent]

\* the step of a migration at which the file system refuses
Failures == {"none", "create", "open", "side", "write"}

\* lines 41-57: the directory and the error after Up.  A WriteFile that
\* fails does so when it opens swarm.key or after it has truncated it
Up(files, fail) ==
    IF fail = "create" THEN [err |-> "create", files |-> files]
    ELSE LET created == Create(files, "repover") IN
         IF fail = "open" THEN [err |-> "writeFile", files |-> created]
         ELSE IF fail = "side"
         THEN [err |-> "writeFile", files |-> WriteFile(created, "swarmkey", <<>>)]
         ELSE LET keyed == WriteFile(created, "swarmkey", swarmKeyData) IN
              IF fail = "write" THEN [err |-> "write", files |-> keyed]
              ELSE [err |-> "nil", files |-> Write(keyed, "repover", <<"6">>)]

\* lines 59-75: the directory and the error after Down
Down(files, fail) ==
    IF fail = "create" THEN [err |-> "create", files |-> files]
    ELSE LET created == Create(files, "repover") IN
         IF fail \in {"open", "side"} \/ RemoveErr(created, "swarmkey") # "nil"
         THEN [err |-> "remove", files |-> created]
         ELSE LET removed == Remove(created, "swarmkey") IN
              IF fail = "write" THEN [err |-> "write", files |-> removed]
              ELSE [err |-> "nil", files |-> Write(removed, "repover", <<"5">>)]

Migrated(name, r) ==
    repo' = [repo EXCEPT !.files = r.files,
                         !.log = Append(@, [op |-> name, err |-> r.err,
                                            before |-> repo.files, after |-> r.files])]

\* the directory whose path is given to the migrations (the test: "./",
\* with a datastore directory in it)
OpenRepo ==
    /\ ~repo.open
    /\ \E v \in RepoverStates, k \in SwarmKeyStates :
           repo' = [repo EXCEPT !.open = TRUE,
                                !.files = [repover |-> v, swarmkey |-> k,
                                           datastore |-> File(<<>>)]]
    /\ UNCHANGED <<walletVars, svc, snd, life, note, xr>>

DoUp ==
    /\ repo.open
    /\ Len(repo.log) < MaxMigrations
    /\ \E fail \in Failures : \E r \in {Up(repo.files, fail)} : Migrated("Up", r)
    /\ UNCHANGED <<walletVars, svc, snd, life, note, xr>>

DoDown ==
    /\ repo.open
    /\ Len(repo.log) < MaxMigrations
    /\ \E fail \in Failures : \E r \in {Down(repo.files, fail)} : Migrated("Down", r)
    /\ UNCHANGED <<walletVars, svc, snd, life, note, xr>>

MigrationNext == OpenRepo \/ DoUp \/ DoDown

MigrationSpec == Init /\ [][MigrationNext]_vars

----------------------------------------------------------------------------
(* Notifications: wrap and Serialize.  A value is [type, Type, id]: its Go *)
(* type, the Type field the caller left in it (NoField for a struct that   *)
(* has none) and the rest of its fields.                                   *)

\* values of one type the rest of whose fields differ
MaxNoteIds == 2

\* the notification structs that have a Type field, and the discriminator
\* wrap writes into each; OrderDeclinedNotification is no case of the switch
Discriminator ==
    [OrderNotification |-> "order",
     PaymentNotification |-> "payment",
     OrderConfirmationNotification |-> "orderConfirmation",
     OrderCancelNotification |-> "cancel",
     RefundNotification |-> "refund",
     FulfillmentNotification |-> "fulfillment",
     CompletionNotification |-> "orderComplete",
     DisputeOpenNotification |-> "disputeOpen",
     DisputeUpdateNotification |-> "disputeUpdate",
     DisputeCloseNotification |-> "disputeClose",
     DisputeAcceptedNotification |-> "disputeAccepted",
     FollowNotification |-> "follow",
     UnfollowNotification |-> "unfollow",
     ModeratorAddNotification |-> "moderatorAdd",
     ModeratorRemoveNotification |-> "moderatorRemove"]

\* the structs declared with a Type field
TypedStructs == DOMAIN Discriminator \cup {"OrderDeclinedNotification"}

\* the envelope of the events that have one of their own
OwnEnvelope ==
    [ChatMessage |-> "message", ChatRead |-> "messageRead",
     ChatTyping |-> "messageTyping", IncomingTransaction |-> "wallet"]

\* the remaining structs of the package, and a value that is no struct of it
PlainStructs == {"StatusNotification", "TestNotification"}
NoField == "(no field)"

\* what the callers hand to wrap
SuppliedTypes == {"", "order", "payment", "declined"}
NoteValues ==
    [type : TypedStructs, Type : SuppliedTypes, id : 1..MaxNoteIds]
        \cup [type : DOMAIN OwnEnvelope \cup PlainStructs \cup {"[]byte"},
              Type : {NoField}, id : 1..MaxNoteIds]

\* wrap: the envelope ("none" when i is returned as it is) and the value in it
wrap(i) ==
    IF i.type \in DOMAIN Discriminator
    THEN [envelope |-> "notification", data |-> [i EXCEPT !.Type = Discriminator[i.type]]]
    ELSE IF i.type \in DOMAIN OwnEnvelope
    THEN [envelope |-> OwnEnvelope[i.type], data |-> i]
    ELSE [envelope |-> "none", data |-> i]

\* Serialize: bytes go out as they are, anything else as the JSON of wrap(i)
SerializeNotification(i) ==
    IF wrap(i).envelope = "none" /\ wrap(i).data.type = "[]byte"
    THEN [encoding |-> "raw", envelope |-> "none", data |-> i]
    ELSE [encoding |-> "json", envelope |-> wrap(i).envelope, data |-> wrap(i).data]

DoWrap ==
    /\ \E i \in NoteValues :
          note' = [op |-> "wrap", in |-> i, out |-> wrap(i)]
    /\ UNCHANGED <<walletVars, svc, snd, life, repo, xr>>

DoSerialize ==
    /\ \E i \in NoteValues :
          note' = [op |-> "Serialize", in |-> i, out |-> SerializeNotification(i)]
    /\ UNCHANGED <<walletVars, svc, snd, life, repo, xr>>

NoteNext == DoWrap \/ DoSerialize

NoteSpec == Init /\ [][NoteNext]_vars

----------------------------------------------------------------------------
(* The exchange-rate fetcher.  Prices are kept in hundredths.  The run     *)
(* goroutine and a caller share the fetcher; the answers of the providers  *)
(* are the environment.                                                    *)

\* refreshes run on one fetcher
MaxRefreshes == 2

\* len(b.providers): the loop of fetchCurrentRates takes any list; the
\* constructor puts one provider into it, the model a second one behind it
NumProviders == 2

\* strconv.ParseFloat(s, 64) on the strings of the model: an optional sign,
\* digits with at most one point among them, at least one digit; val is the
\* number in hundredths
ParseFloat(s) ==
    LET signed == s # <<>> /\ Head(s) \in {"-", "+"}
        body == IF signed THEN Tail(s) ELSE s
        points == {i \in 1..Len(body) : body[i] = "."}
        p == IF points = {} THEN Len(body) + 1 ELSE CHOOSE i \in points : TRUE
        whole == SubSeq(body, 1, p - 1)
        frac == SubSeq(body, p + 1, Len(body))
        frac2 == SubSeq(frac \o <<"0", "0">>, 1, 2)
        v == DigitsValue(whole, 0) * 100 + DigitsValue(frac2, 0)
    IN  IF \/ Cardinality(points) > 1
           \/ Len(whole) + Len(frac) = 0
           \/ \E i \in 1..Len(body) : body[i] \notin Digits \cup {"."}
        THEN [err |-> "invalid syntax", val |-> 0]
        ELSE [err |-> "nil", val |-> IF signed /\ Head(s) = "-" THEN -v ELSE v]

\* the decoded JSON a provider may answer: shape "object" or "list"; first,
\* the kind of the first element of a list ("none" for the empty list);
\* price, the kind of its price_usd; s, the string when it is one
Dat(shape, first, price, s) == [shape |-> shape, first |-> first, price |-> price, s |-> s]
PriceStrings == {<<"5">>, <<"0", ".", "5">>, <<"x">>, <<>>}
DatValues ==
    {Dat("object", "none", "missing", <<>>),
     Dat("list", "none", "missing", <<>>),
     Dat("list", "number", "missing", <<>>),
     Dat("list", "object", "missing", <<>>),
     Dat("list", "object", "number", <<>>)}
        \cup {Dat("list", "object", "string", s) : s \in PriceStrings}

\* a decode that writes the cache before it looks at the price
decodeWritesFirst(dat, cache) ==
    IF dat.shape # "list" \/ (dat.first # "none" /\ dat.first # "object")
    THEN [err |-> "panic", cache |-> cache]
    ELSE IF dat.price = "string" /\ ParseFloat(dat.s).err = "nil"
    THEN [err |-> "nil", cache |-> [cache EXCEPT !["PHR"] = Rate(ParseFloat(dat.s).val)]]
    ELSE [err |-> "usd price is not a number", cache |-> [cache EXCEPT !["PHR"] = Rate(0)]]

\* CMCDecoder.decode(dat, cache): its error ("panic" when a type assertion
\* fails) and the cache afterwards
decode(dat, cache) ==
    IF dat.shape # "list" THEN [err |-> "panic", cache |-> cache]
    ELSE IF dat.first = "none" THEN [err |-> "could not get currency", cache |-> cache]
    ELSE IF dat.first # "object" THEN [err |-> "panic", cache |-> cache]
    ELSE IF dat.price = "missing" THEN [err |-> "could not get USD price", cache |-> cache]
    ELSE IF dat.price # "string"
    THEN [err |-> "could not decode current USD price", cache |-> cache]
    ELSE IF ParseFloat(dat.s).err # "nil"
    THEN [err |-> "usd price is not a number", cache |-> cache]
    ELSE [err |-> "nil", cache |-> [cache EXCEPT !["PHR"] = Rate(ParseFloat(dat.s).val)]]

\* what a provider's URL answers: no answer, an answer that is no JSON, or JSON
Responses ==
    {[kind |-> "httpErr", dat |-> Dat("object", "none", "missing", <<>>)],
     [kind |-> "badJson", dat |-> Dat("object", "none", "missing", <<>>)]}
        \cup {[kind |-> "json", dat |-> d] : d \in DatValues}

\* provider.fetch(): its error and the cache afterwards
fetch(resp, cache) ==
    IF resp.kind = "httpErr" THEN [err |-> "http", cache |-> cache]
    ELSE IF resp.kind = "badJson" THEN [err |-> "json", cache |-> cache]
    ELSE decode(resp.dat, cache)

\* the loop of fetchCurrentRates from provider k on: [err, cache, trace]
RECURSIVE FetchFrom(_, _, _, _)
FetchFrom(resps, k, cache, trace) ==
    IF k > NumProviders
    THEN [err |-> "All exchange rate API queries failed", cache |-> cache, trace |-> trace]
    ELSE LET r == fetch(resps[k], cache)
             t == Append(trace, [resp |-> resps[k], err |-> r.err,
                                 before |-> cache, after |-> r.cache])
         IN  IF r.err \in {"nil", "panic"}
             THEN [err |-> r.err, cache |-> r.cache, trace |-> t]
             ELSE FetchFrom(resps, k + 1, r.cache, t)

\* fetchCurrentRates() under the mutex: the fetcher afterwards
fetchCurrentRates(x, resps) ==
    LET r == FetchFrom(resps, 1, x.cache, <<>>) IN
    [x EXCEPT !.cache = r.cache, !.trace = r.trace, !.nfetch = @ + 1,
              !.stamp = IF r.err = "nil" THEN x.nfetch + 1 ELSE @,
              !.crashed = r.err = "panic"]

\* the answers a refresh may meet: those behind the provider that ends the
\* loop are not asked for
Answers ==
    {resps \in [1..NumProviders -> Responses] :
        \A k \in 1..NumProviders :
           (\E j \in 1..(k - 1) : fetch(resps[j], Xr0.cache).err \in {"nil", "panic"})
               => resps[k] = [kind |-> "httpErr", dat |-> Dat("object", "none", "missing", <<>>)]}

CanRefresh == ~xr.crashed /\ xr.nfetch < MaxRefreshes

\* run(): the refresh at its start and the one at every tick
RunRefresh ==
    /\ CanRefresh
    /\ \E resps \in Answers : xr' = fetchCurrentRates(xr, resps)
    /\ UNCHANGED <<walletVars, svc, snd, life, repo, note>>

\* the price and the error of a lookup in the cache
LookupZeroNoError(cache, code) == [rate |-> cache[code].val, err |-> "nil"]
Lookup(cache, code) ==
    IF ~cache[code].ok THEN [rate |-> 0, err |-> "Currency not tracked"]
    ELSE [rate |-> cache[code].val, err |-> "nil"]

\* GetExchangeRate(currencyCode)
GetExchangeRate ==
    /\ ~xr.crashed
    /\ xr.call.pc \in {"idle", "done"}
    /\ \E code \in Codes :
          xr' = [xr EXCEPT !.call =
                    [NoCall EXCEPT !.pc = "done", !.op = "GetExchangeRate", !.code = code,
                                   !.rate = Lookup(xr.cache, code).rate,
                                   !.err = Lookup(xr.cache, code).err,
                                   !.before = xr.cache, !.after = xr.cache,
                                   !.fetched0 = xr.nfetch, !.fetched1 = xr.nfetch]]
    /\ UNCHANGED <<walletVars, svc, snd, life, repo, note>>

\* the step GetLatestRate begins with
LatestRateReadsAtOnce(code) == "read"
LatestRateFirstStep(code) == "fetch"

\* GetLatestRate(currencyCode), line 68: b.fetchCurrentRates(), its error dropped
LatestRateFetch ==
    /\ CanRefresh
    /\ xr.call.pc \in {"idle", "done"}
    /\ \E code \in Codes, resps \in Answers :
          \E x \in {IF LatestRateFirstStep(code) = "fetch"
                     THEN fetchCurrentRates(xr, resps) ELSE xr} :
             xr' = [x EXCEPT !.call =
                       [NoCall EXCEPT !.pc = "read", !.op = "GetLatestRate", !.code = code,
                                      !.before = xr.cache, !.fetched0 = xr.nfetch,
                                      !.own = x.nfetch,
                                      !.ownOk = x.stamp = x.nfetch /\ x.nfetch > xr.nfetch]]
    /\ UNCHANGED <<walletVars, svc, snd, life, repo, note>>

\* GetLatestRate, lines 69-75: the lookup under the mutex
LatestRateRead ==
    /\ ~xr.crashed
    /\ xr.call.pc = "read"
    /\ xr' = [xr EXCEPT !.call.pc = "done",
                        !.call.rate = Lookup(xr.cache, xr.call.code).rate,
                        !.call.err = Lookup(xr.cache, xr.call.code).err,
                        !.call.after = xr.cache,
                        !.call.fetched1 = xr.nfetch,
                        !.call.got = xr.stamp]
    /\ UNCHANGED <<walletVars, svc, snd, life, repo, note>>

XrNext == RunRefresh \/ GetExchangeRate \/ LatestRateFetch \/ LatestRateRead

XrSpec == Init /\ [][XrNext]_vars

----------------------------------------------------------------------------
(* Properties *)

\* the decimal numerals: an optional sign and digits only, at least one
IsNumeral(s) ==
    LET body == IF s # <<>> /\ Head(s) \in {"-", "+"} THEN Tail(s) ELSE s
    IN  body # <<>> /\ \A i \in 1..Len(body) : body[i] \in {"0", "5"}

\* the value of a numeral without sign
RECURSIVE NumeralValue(_)
NumeralValue(s) ==
    IF s = <<>> THEN 0
    ELSE 10 * NumeralValue(SubSeq(s, 1, Len(s) - 1)) + (IF s[Len(s)] = "5" THEN 5 ELSE 0)

\* the daemon answered a positive integer
PositiveAnswer(a) ==
    /\ ~a.rpcErr
    /\ IsNumeral(a.resp)
    /\ Head(a.resp) # "-"
    /\ NumeralValue(IF Head(a.resp) = "+" THEN Tail(a.resp) ELSE a.resp) > 0

\* C10: GetFeePerByte asks estimatefee for 1, 3, 6 blocks at PRIORITY, NORMAL,
\* ECONOMIC; a positive integer answer k gives k divided by 1000; an RPC
\* failure, an answer that is no integer, or a non-positive one gives 50.
C10_FeePerByte ==
    (op = "GetFeePerByte" /\ args.feeLevel \in {"PRIOIRTY", "NORMAL", "ECONOMIC"}) =>
        /\ rpc = <<[method |-> "estimatefee",
                    n |-> CASE args.feeLevel = "PRIOIRTY" -> 1
                            [] args.feeLevel = "NORMAL" -> 3
                            [] args.feeLevel = "ECONOMIC" -> 6]>>
        /\ PositiveAnswer(args) =>
               ret.fee = NumeralValue(IF Head(args.resp) = "+" THEN Tail(args.resp)
                                      ELSE args.resp) \div 1000
        /\ ~PositiveAnswer(args) => ret.fee = 50
        /\ args.resp = <<"5", "0", "0", "0", "0">> => ret.fee = 50
        /\ args.resp = <<"-", "5">> => ret.fee = 50

\* C10 witness: NORMAL, the daemon answers 50000, the fee is 50 and came
\* from estimatefee(3)
C10_Witness ==
    /\ op = "GetFeePerByte"
    /\ args.feeLevel = "NORMAL"
    /\ ~args.rpcErr
    /\ args.resp = <<"5", "0", "0", "0", "0">>
    /\ ret.fee = 50
    /\ rpc = <<[method |-> "estimatefee", n |-> 3]>>

\* C7 as claimed: GenerateMultisigScript fails, returning no address and no
\* script, whenever timeout > 0 and the timeout key is nil.
C7_MissingTimeoutKeyFails ==
    (op = "GenerateMultisigScript" /\ args.timeout > 0 /\ args.timeoutKey = NilKey) =>
        (err # "nil" /\ ret.addr = NoAddr /\ ret.script = <<>>)

\* the threshold a redeem script encodes: the number it starts with (after OP_IF)
ScriptThreshold(script) ==
    OpNumber(script[IF script[1].op = OP_IF THEN 2 ELSE 1])

\* the position of the first OP_CHECKMULTISIG of a script
CheckMultisigAt(script) ==
    CHOOSE i \in 1..Len(script) :
        /\ script[i].op = OP_CHECKMULTISIG
        /\ \A j \in 1..(i - 1) : script[j].op # OP_CHECKMULTISIG

\* the key count a redeem script encodes: the number before OP_CHECKMULTISIG
ScriptKeyCount(script) == OpNumber(script[CheckMultisigAt(script) - 1])

\* the keys pushed before OP_CHECKMULTISIG
ScriptKeysPushed(script) ==
    Cardinality({i \in 1..CheckMultisigAt(script) : script[i].op = 33})

\* C8: GenerateMultisigScript fails whenever len(keys) < threshold, so every
\* redeem script it returns encodes a threshold N and a key count M with
\* M >= N (N the threshold asked for, M the number of keys given and pushed).
C8_ThresholdWithinKeys ==
    op = "GenerateMultisigScript" =>
        /\ Len(args.keys) < args.threshold =>
               (err # "nil" /\ ret.script = <<>> /\ ret.addr = NoAddr)
        /\ err = "nil" =>
               /\ ScriptThreshold(ret.script) = args.threshold
               /\ ScriptKeyCount(ret.script) = Len(args.keys)
               /\ ScriptKeysPushed(ret.script) = Len(args.keys)
               /\ ScriptKeyCount(ret.script) >= ScriptThreshold(ret.script)

\* C8 witness: a time-locked 2-of-3 script was returned
C8_Witness ==
    /\ op = "GenerateMultisigScript"
    /\ err = "nil"
    /\ Len(args.keys) = 3
    /\ args.threshold = 2
    /\ ret.script[1].op = OP_IF
    /\ ScriptThreshold(ret.script) = 2
    /\ ScriptKeyCount(ret.script) = 3

\* the signatures of a list tagged with input index i
SigsFor(sigs, i) == {sigs[k].Signature : k \in {j \in 1..Len(sigs) : sigs[j].InputIndex = i}}

\* the witness item of the signature a list holds for input i: the empty
\* item when it holds none
SigItemFor(sigs, i) ==
    IF SigsFor(sigs, i) = {} THEN {ItemEmpty}
    ELSE {[tag |-> "sig", sig |-> sg, script |-> <<>>] : sg \in SigsFor(sigs, i)}

\* Multisign got as far as the witnesses
MultisignBuilt == op = "Multisign" /\ err \in {"nil", "sendrawtransaction failed"}

\* C4: the witness Multisign gives input i is [empty, sig1, sig2, redeemScript],
\* and [empty, sig1, sig2, 0x01, redeemScript] when the redeem script starts
\* with OP_IF, sig1 and sig2 being the signatures of sigs1 and sigs2 whose
\* InputIndex is i.
C4_MultisignWitness ==
    MultisignBuilt =>
        \A i \in 1..Len(tx.ins) :
            LET w == tx.ins[i].witness
                locked == args.redeemScript[1].op = OP_IF
            IN  /\ Len(w) = IF locked THEN 5 ELSE 4
                /\ w[1] = ItemEmpty
                /\ w[2] \in SigItemFor(args.sigs1, i - 1)
                /\ w[3] \in SigItemFor(args.sigs2, i - 1)
                /\ locked => w[4] = ItemOne
                /\ w[Len(w)] = ItemScript(args.redeemScript)
                /\ w[2].tag = "sig" => (w[2].sig.key = 1 /\ w[2].sig.digest.idx = i - 1)
                /\ w[3].tag = "sig" => (w[3].sig.key = 2 /\ w[3].sig.digest.idx = i - 1)

\* C4 witness: two inputs under a time-locked script, the second party's
\* signatures handed over in reverse order, each found by its InputIndex
C4_Witness ==
    /\ MultisignBuilt
    /\ Len(tx.ins) = 2
    /\ args.redeemScript[1].op = OP_IF
    /\ Len(args.sigs2) = 2
    /\ args.sigs2[1].InputIndex = 1
    /\ \A i \in 1..2 : /\ Len(tx.ins[i].witness) = 5
                       /\ tx.ins[i].witness[3].tag = "sig"
                       /\ tx.ins[i].witness[3].sig.digest.idx = i - 1

\* the arguments Multisign needs to get to the broadcast: outpoint hashes of
\* 32 bytes and a redeem script that is not empty
MultisignArgsOk ==
    /\ \A i \in 1..Len(args.ins) : HashOk(args.ins[i])
    /\ args.redeemScript # <<>>

\* C5 as claimed: Multisign calls SendRawTransaction exactly when broadcast is
\* true, and returns the serialized transaction bytes whatever the outcome
\* of the broadcast.
C5_AlwaysReturnsBytes ==
    (op = "Multisign" /\ MultisignArgsOk) =>
        /\ (rpc = <<RpcCall("sendrawtransaction", 0)>>) <=> args.broadcast
        /\ rpc = <<>> <=> ~args.broadcast
        /\ ret.bytes # NoBytes
        /\ ret.bytes = Serialize(tx)

\* C5: Multisign calls SendRawTransaction, once, exactly when broadcast is
\* true (and never when its arguments stop it before); it returns the
\* serialized bytes when it does not broadcast or the broadcast succeeds,
\* and the broadcast's error and no bytes when the broadcast fails.
C5_BroadcastAndBytes ==
    op = "Multisign" =>
        /\ Len(sent) <= 1
        /\ rpc = [i \in 1..Len(sent) |-> RpcCall("sendrawtransaction", 0)]
        /\ sent # <<>> => (args.broadcast /\ sent = <<tx>>)
        /\ MultisignArgsOk =>
               /\ sent # <<>> <=> args.broadcast
               /\ (args.broadcast /\ args.sendErr) =>
                      (err # "nil" /\ ret.bytes = NoBytes)
               /\ ~(args.broadcast /\ args.sendErr) =>
                      (err = "nil" /\ ret.bytes = Serialize(tx) /\ ret.bytes # NoBytes)
        /\ ~MultisignArgsOk => (err # "nil" /\ ret.bytes = NoBytes)

\* C5 witness: a broadcast that the daemon refused
C5_Witness ==
    /\ op = "Multisign"
    /\ MultisignArgsOk
    /\ args.broadcast
    /\ args.sendErr
    /\ sent = <<tx>>
    /\ err = "sendrawtransaction failed"
    /\ ret.bytes = NoBytes

\* C6 as claimed: a CreateMultisigSignature that succeeds returns exactly one
\* signature per input, the entry of input i tagged InputIndex = i, and
\* never broadcasts.
C6_OneSignaturePerInput ==
    (op = "CreateMultisigSignature" /\ err = "nil") =>
        /\ Len(ret.sigs) = Len(args.ins)
        /\ \A i \in 1..Len(args.ins) : ret.sigs[i].InputIndex = i - 1
        /\ rpc = <<>>
        /\ sent = <<>>

\* the sendrawtransaction calls among the RPC calls made
SendCalls == {i \in 1..Len(rpc) : rpc[i].method = "sendrawtransaction"}

\* coin gathering fails: listunspent fails, or a spendable entry has an
\* address that does not decode or a key the daemon does not export
GatherFails(env) ==
    \/ env.listErr
    \/ \E i \in 1..Len(env.unspent) :
           env.unspent[i].spendable /\ (~env.unspent[i].addrOk \/ ~env.unspent[i].dumpOk)

\* every input carries a signature script made for it
FullySigned(t) ==
    /\ t.ins # <<>>
    /\ \A i \in 1..Len(t.ins) :
           /\ t.ins[i].sigScript # NoSig
           /\ t.ins[i].sigScript.digest.idx = i - 1
           /\ t.ins[i].sigScript.digest.outpoint = t.ins[i].outpoint
           /\ t.ins[i].sigScript.digest.outs = t.outs

\* C1: Spend calls sendRawTransaction at most once and only after buildTx
\* returned a fully signed transaction; when the amount is dust, coin
\* gathering fails, coin selection fails or an input fails to sign, Spend
\* returns an error and nothing is broadcast.
C1_SpendAllOrNothing ==
    op = "Spend" =>
        /\ Cardinality(SendCalls) <= 1
        /\ Cardinality(SendCalls) = Len(sent)
        /\ sent # <<>> => /\ sent = <<tx>>
                          /\ FullySigned(tx)
                          /\ SendCalls = {Len(rpc)}
        /\ IsDustAmount(args.amount, 25, 1000) => (err = "ErrorDustAmount" /\ sent = <<>>)
        /\ GatherFails(args.env) => (err # "nil" /\ sent = <<>>)
        /\ err \in {"ErrorDustAmount", "ErrorInsuffientFunds", "Failed to sign transaction",
                    "listunspent failed", "decoded address failed", "dumpprivkey failed",
                    "unsupported address type", "panic"} => sent = <<>>
        /\ err = "nil" => sent # <<>>
        /\ (tx # NoTx /\ ~FullySigned(tx)) => (err # "nil" /\ sent = <<>>)

\* C1 witness: an input of the selected coins failed to sign; Spend returned
\* the error and sent nothing
C1_Witness ==
    /\ op = "Spend"
    /\ err = "Failed to sign transaction"
    /\ tx # NoTx
    /\ ~FullySigned(tx)
    /\ sent = <<>>
    /\ SendCalls = {}

\* the values of a sequence of records with a value field, summed
SumValues(s) == SumSeq([i \in 1..Len(s) |-> s[i].value])

\* SweepAddress got as far as the broadcast
SweepBuilt == op = "SweepAddress" /\ err \in {"nil", "sendrawtransaction failed"}

\* the size and the fee rate SweepAddress computes the fee from
SweepSize ==
    EstimateSerializeSize(Len(args.utxos), tx.outs, FALSE, SweepTxType(args.redeemScript))
SweepRate == GetFeePerByte(args.feeLevel, args.env.feeErr, args.env.feeResp).fee

\* CreateMultisigSignature signed, or Multisign got as far as the witnesses
MultisigBuilt == (op = "CreateMultisigSignature" /\ err = "nil") \/ MultisignBuilt

\* the fee the two multisig operations estimate
MultisigFee ==
    EstimateSerializeSize(Len(args.ins), args.outs, FALSE, MultisigTxType(args.redeemScript))
        * args.feePerByte

\* C2 as claimed: in every transaction the wallet builds, the inputs sum to
\* at least the outputs, and the difference is at least estimatedSize x
\* feePerByte.
C2_FeeAtLeastEstimate ==
    /\ SweepBuilt =>
           /\ SumValues(args.utxos) >= SumValues(tx.outs)
           /\ SumValues(args.utxos) - SumValues(tx.outs) >= SweepSize * SweepRate
    /\ MultisigBuilt =>
           /\ SumValues(args.ins) >= SumValues(tx.outs)
           /\ SumValues(args.ins) - SumValues(tx.outs) >= MultisigFee

\* C2: the transaction SweepAddress broadcasts pays min(input value,
\* estimatedSize x feePerByte): its output is the input value less the fee,
\* pinned to 0 when the fee exceeds it.  CreateMultisigSignature and Multisign
\* take floor(fee / n) from each of the n > 0 outputs they are given, n x
\* floor(fee / n) <= fee in all, whatever the input values; with no output
\* nothing is taken.
C2_FeePaid ==
    /\ SweepBuilt =>
           /\ Len(tx.outs) = 1
           /\ tx.outs[1].value = Max(0, SumValues(args.utxos) - SweepSize * SweepRate)
           /\ SumValues(args.utxos) >= SumValues(tx.outs)
           /\ SumValues(args.utxos) - SumValues(tx.outs)
                  = Min(SumValues(args.utxos), SweepSize * SweepRate)
    /\ MultisigBuilt =>
           LET n == Len(args.outs)
               taken == SumValues(args.outs) - SumValues(tx.outs)
           IN  /\ Len(tx.outs) = n
               /\ n = 0 => taken = 0
               /\ n > 0 =>
                      /\ taken = n * (MultisigFee \div n)
                      /\ taken <= MultisigFee
                      /\ taken > MultisigFee - n
                      /\ \A i \in 1..n : \E j \in 1..n :
                             /\ tx.outs[j].script = args.outs[i].script
                             /\ tx.outs[j].value = args.outs[i].value - (MultisigFee \div n)

\* C2 witness: a sweep whose fee exceeded the value swept: the output is 0
\* and the fee paid is the whole input, less than estimatedSize x feePerByte
C2_Witness ==
    /\ SweepBuilt
    /\ err = "nil"
    /\ SumValues(args.utxos) > 0
    /\ SweepSize * SweepRate > SumValues(args.utxos)
    /\ tx.outs[1].value = 0
    /\ sent = <<tx>>

\* the lock time a time-locked redeem script encodes: the number pushed
\* after its OP_ELSE
ScriptLockTime(script) ==
    OpNumber(script[1 + CHOOSE i \in 1..Len(script) : script[i].op = OP_ELSE])

\* the redeem script of SweepAddress or Multisign is a CSV script
SweepsCSV == op = "SweepAddress" /\ ~args.redeemScript.nil
                 /\ args.redeemScript.s # <<>> /\ args.redeemScript.s[1].op = OP_IF

\* a transaction that spends nothing governed by a CSV script was built
BuiltPlain ==
    \/ op = "Spend" /\ tx # NoTx
    \/ SweepBuilt /\ args.redeemScript.nil
    \/ op = "BumpFee" /\ sent # <<>>
    \/ MultisignBuilt /\ args.redeemScript[1].op # OP_IF

OwnEntries ==
    LET u == args.daemon.unspent
    IN  {i \in 1..Len(u) : u[i].txid = args.txid}

\* an entry BumpFee can sweep: its script is hex, its address decodes and
\* the daemon exports its key
Usable(u) == u.scriptOk /\ u.addrOk /\ u.dumpOk

\* the entry that decides the scan: the first of the transaction's entries
\* that is confirmed or usable, 0 when there is none
Deciding ==
    LET u == args.daemon.unspent
        S == {i \in OwnEntries : u[i].confirmations > 0 \/ Usable(u[i])}
    IN  IF S = {} THEN 0 ELSE CHOOSE i \in S : \A j \in S : i <= j

AlreadyConfirmed == "Transaction is confirmed, cannot bump fee"
NotFound == "Transaction either doesn't exist or has already been spent"

\* the daemon answers every call of the bump, and every entry of listunspent
\* is usable
DaemonWell ==
    /\ ~args.daemon.getErr
    /\ ~args.daemon.listErr
    /\ \A i \in 1..Len(args.daemon.unspent) : Usable(args.daemon.unspent[i])
    /\ args.env.currentAddr # NoAddr
    /\ ~args.env.sendErr

C11_BumpIsPriorityPlusOne ==
    /\ (op = "GetFeePerByte" /\ args.feeLevel = "FEE_BUMP") =>
           /\ ret.fee = GetFeePerByte("PRIOIRTY", args.rpcErr, args.resp).fee + 1
           /\ ret.fee > GetFeePerByte("PRIOIRTY", args.rpcErr, args.resp).fee
    /\ (op = "BumpFee" /\ sent # <<>>) =>
           SumValues(sent[1].outs) =
               Max(0, BumpUtxoValue(args.daemon.unspent[Deciding].amount)
                          - EstimateSerializeSize(1, sent[1].outs, FALSE, "P2PKH")
                                * (GetFeePerByte("PRIOIRTY", args.env.feeErr,
                                                 args.env.feeResp).fee + 1))

\* C12 as claimed: when the remote peer of an inbound stream is banned,
\* no message is read from it, no handler runs, the stream is not bound into
\* the peer's message sender, and the stream ends up closed.
C12_BannedStreamClosed ==
    (svc.banned /\ svc.pc = "done") =>
        /\ svc.nread = 0
        /\ svc.log = <<>>
        /\ ~svc.bound
        /\ svc.closed

\* the events of the log that are a reply put on the stream, or the attempt
IsWrite(e) == e.ev \in {"write", "writeErr"}

\* C13: on an accepted stream every message read whose type has a handler
\* has its handler run once, to completion, before the next message is read;
\* a reply is written on the stream exactly when the handler returned a
\* reply and no error; so replies are written in the order of the requests.
C13_HandlerThenReply ==
    LET log == svc.log IN
    /\ \A i \in 1..Len(log) :
           /\ (log[i].ev = "read" /\ HandlerForMsgType(log[i].type)) =>
                  /\ i < Len(log) => (log[i + 1].ev = "handle" /\ log[i + 1].n = log[i].n)
                  /\ i = Len(log) => svc.pc = "dispatch"
           /\ log[i].ev = "handle" =>
                  /\ i > 1 /\ log[i - 1].ev = "read" /\ log[i - 1].n = log[i].n
                  /\ log[i].res = "reply" =>
                         /\ i < Len(log) => (IsWrite(log[i + 1]) /\ log[i + 1].n = log[i].n)
                         /\ i = Len(log) => svc.pc = "write"
                  /\ log[i].res # "reply" => (i < Len(log) => ~IsWrite(log[i + 1]))
           /\ IsWrite(log[i]) =>
                  /\ i > 1 /\ log[i - 1].ev = "handle" /\ log[i - 1].res = "reply"
                  /\ log[i - 1].n = log[i].n
           /\ log[i].ev = "read" =>
                  log[i].n = 1 + Cardinality({j \in 1..(i - 1) : log[j].ev = "read"})
    /\ \A i, j \in 1..Len(log) :
           /\ (i < j /\ IsWrite(log[i]) /\ IsWrite(log[j])) => log[i].n < log[j].n
           /\ (i # j /\ log[i].ev = "handle") => ~(log[j].ev = "handle" /\ log[j].n = log[i].n)
    /\ svc.pc = "read" => (svc.bound /\ ~svc.banned)

\* C13 witness: three messages read; the handlers of the first and the third
\* returned a reply, that of the second none; two replies written in order
C13_Witness ==
    /\ svc.nread = 3
    /\ Len(svc.log) = 8
    /\ svc.log[3] = Event("write", 1, svc.log[1].type)
    /\ svc.log[5].ev = "handle" /\ svc.log[5].res = "nil"
    /\ svc.log[8] = Event("write", 3, svc.log[6].type)

\* the events that end the loop
EndsLoop(e) ==
    \/ e.ev \in {"readErr", "writeErr"}
    \/ e.ev = "read" /\ ~HandlerForMsgType(e.type)
    \/ e.ev = "handle" /\ e.res = "err"

\* C14: on an accepted stream the loop ends at the first read error, message
\* without handler, handler error or reply write error; the stream is then
\* closed and no later message of it is read or dispatched.
C14_LoopEndsClosed ==
    /\ \A i \in 1..Len(svc.log) :
           EndsLoop(svc.log[i]) =>
               /\ i = Len(svc.log)
               /\ svc.pc = "done"
               /\ svc.closed
    /\ (svc.pc = "done" /\ ~svc.banned) =>
           /\ svc.closed
           /\ svc.log # <<>>
           /\ EndsLoop(svc.log[Len(svc.log)])
    /\ (svc.pc \notin {"done", "accept"}) => (~svc.closed /\ svc.deferred)

\* C14 witness: the write of the second reply failed: the loop ended there
\* and the stream is closed
C14_Witness ==
    /\ svc.pc = "done"
    /\ ~svc.banned
    /\ svc.closed
    /\ svc.nread = 2
    /\ Len(svc.log) = 6
    /\ svc.log[6].ev = "writeErr"

\* the frames put on stream k, in order
RECURSIVE FramesOf(_, _)
FramesOf(wire, k) ==
    IF wire = <<>> THEN <<>>
    ELSE (IF Head(wire).stream = k THEN <<Head(wire)>> ELSE <<>>) \o FramesOf(Tail(wire), k)

\* the calls that hold the sender: between taking its mutex and releasing it
InSender == {c \in Callers : snd.pc[c] \in {"prep", "write", "read"}}

\* on every stream a request is followed by its own reply, if by anything
NotInterleaved ==
    \A k \in 1..snd.opened :
        LET f == FramesOf(snd.wire, k) IN
        \A i \in 1..Len(f) :
            /\ (f[i].kind = "request" /\ i < Len(f)) =>
                   (f[i + 1].kind = "reply" /\ f[i + 1].caller = f[i].caller)
            /\ f[i].kind = "reply" =>
                   (i > 1 /\ f[i - 1].kind = "request" /\ f[i - 1].caller = f[i].caller)

Imported(script) ==
    Cardinality({k \in 1..Len(life.imports) : life.imports[k].script = script})

\* Start has returned, addScripts has finished and every call of
\* AddWatchedScript has returned
Settled ==
    /\ Alive
    /\ life.pc = "up"
    /\ life.drain = "done"
    /\ \A j \in 1..MaxScripts : life.call[j] = "done"

\* C16: no importaddress call is made while the wallet is not started, every
\* import is made with rescan=false, and once Start, addScripts and the
\* callers are through, each script of the pending queue whose address can
\* be extracted has been imported exactly once.
C16_QueuedImportedOnce ==
    /\ ~life.started => life.imports = <<>>
    /\ \A k \in 1..Len(life.imports) : ~life.imports[k].rescan
    /\ Settled =>
          \A k \in 1..Len(life.scriptsToAdd) :
             life.scriptsToAdd[k].parses => Imported(life.scriptsToAdd[k]) = 1

\* C17: started is true only after a successful getBlockCount poll, and
\* log.Fatal is never called by the deadline after a poll has succeeded.
C17_NoFatalAfterSuccess ==
    /\ life.started => life.polled
    /\ life.fatal => ~life.fatalAfterSuccess


\* C18: after a successful Up, whatever the directory held before, repover
\* holds exactly "6" and swarm.key exists and holds swarmKeyData.
C18_UpWritesVersionAndKey ==
    \A k \in 1..Len(repo.log) :
       (repo.log[k].op = "Up" /\ repo.log[k].err = "nil") =>
          /\ repo.log[k].after.repover = File(<<"6">>)
          /\ repo.log[k].after.swarmkey = File(swarmKeyData)

\* a successful Up on a directory that held another repover and another key
C18_Witness ==
    \E k \in 1..Len(repo.log) :
       /\ repo.log[k].op = "Up" /\ repo.log[k].err = "nil"
       /\ repo.log[k].before.repover = File(<<"5", "\n">>)
       /\ repo.log[k].before.swarmkey.exists
       /\ repo.log[k].before.swarmkey # File(swarmKeyData)

\* C19: after a successful Down on a directory Up was applied to, swarm.key
\* does not exist and repover holds exactly "5".
C19_DownRemovesKey ==
    \A k \in 1..Len(repo.log) :
       (/\ repo.log[k].op = "Down" /\ repo.log[k].err = "nil"
        /\ \E j \in 1..(k - 1) : repo.log[j].op = "Up" /\ repo.log[j].err = "nil") =>
          /\ repo.log[k].after.swarmkey = Absent
          /\ repo.log[k].after.repover = File(<<"5">>)

\* a successful Down right after a successful Up
C19_Witness ==
    \E k \in 2..Len(repo.log) :
       /\ repo.log[k].op = "Down" /\ repo.log[k].err = "nil"
       /\ repo.log[k - 1].op = "Up" /\ repo.log[k - 1].err = "nil"
       /\ repo.log[k].before.swarmkey = File(swarmKeyData)

\* a successful Up followed at once by a successful Down
UpThenDown(k) ==
    /\ repo.log[k].op = "Up" /\ repo.log[k].err = "nil"
    /\ repo.log[k + 1].op = "Down" /\ repo.log[k + 1].err = "nil"

\* C20: for a directory whose repover holds exactly "5" and that has no
\* swarm.key, a successful Up followed by a successful Down leaves every
\* file and every content as it was before Up.
C20_RoundTrip ==
    \A k \in 1..(Len(repo.log) - 1) :
       (/\ UpThenDown(k)
        /\ repo.log[k].before.repover = File(<<"5">>)
        /\ repo.log[k].before.swarmkey = Absent) =>
          repo.log[k + 1].after = repo.log[k].before

C20_Witness ==
    \E k \in 1..(Len(repo.log) - 1) :
       /\ UpThenDown(k)
       /\ repo.log[k].before.repover = File(<<"5">>)
       /\ repo.log[k].before.swarmkey = Absent
       /\ repo.log[k].after # repo.log[k].before

\* C20 as stated: the round trip restores every directory, whether or not
\* it already held a swarm.key or a repover file.
C20_RoundTripAnyRepo ==
    \A k \in 1..(Len(repo.log) - 1) :
       UpThenDown(k) => repo.log[k + 1].after = repo.log[k].before


\* C29: a migration that returns an error leaves the content of repover as it
\* was before the call.
C29_FailedStepKeepsVersion ==
    \A k \in 1..Len(repo.log) :
       repo.log[k].err # "nil" => repo.log[k].after.repover = repo.log[k].before.repover


\* C25: whatever the interleaving of AddWatchedScript with Start, once both
\* and the addScripts goroutine are through, the address of every script
\* that parses has been imported, by AddWatchedScript itself or by the drain.
C25_NoScriptLost ==
    Settled => \A j \in 1..MaxScripts : ScriptOf(j).parses => Imported(ScriptOf(j)) >= 1


\* C26: the bump transaction BumpFee broadcasts pays, in its single output
\* and its fee together, the full value of the swept output in base units
\* (the amount in coins times 100 000 000) whenever that value exceeds the
\* fee.
C26_BumpSweepsFullValue ==
    (op = "BumpFee" /\ sent # <<>>) =>
        LET amount == args.daemon.unspent[Deciding].amount
            fee == EstimateSerializeSize(1, sent[1].outs, FALSE, "P2PKH")
                       * GetFeePerByte(BumpFeeLevel, args.env.feeErr, args.env.feeResp).fee
            paid == sent[1].outs[1].value + fee
        IN  (amount.coins > 0 \/ amount.sat > fee) =>
                /\ Len(sent[1].outs) = 1
                /\ paid \div 100000000 = amount.coins
                /\ paid % 100000000 = amount.sat


\* the value the caller gave for the input with this outpoint
ValueOfOutpoint(ins, outpoint) ==
    LET k == CHOOSE k \in 1..Len(ins) :
                 [hash |-> ins[k].hash, index |-> ins[k].index] = outpoint
    IN  ins[k].value

\* C27: in whatever order the caller lists the inputs, the signature tagged
\* InputIndex i commits to the value of the input whose outpoint is at
\* position i of the sorted transaction.
C27_SignatureCommitsToOwnValue ==
    (op = "CreateMultisigSignature" /\ err = "nil") =>
        \A k \in 1..Len(ret.sigs) :
           LET sg == ret.sigs[k]
               outpoint == tx.ins[sg.InputIndex + 1].outpoint
           IN  /\ sg.Signature.digest.outpoint = outpoint
               /\ sg.Signature.digest.amt = ValueOfOutpoint(args.ins, outpoint)


\* C28: SweepAddress given a redeem script that parses and is not
\* time-locked, a private key, a destination and a daemon that accepts the
\* transaction, succeeds: the transaction keeps the default version, every
\* input has the witness [empty, signature, redeem script], and it is
\* broadcast.
C28_SweepWithoutTimelock ==
    (/\ op = "SweepAddress"
     /\ ~args.redeemScript.nil
     /\ args.redeemScript.s # <<>>
     /\ ParseOk(args.redeemScript.s)
     /\ args.redeemScript.s[1].op # OP_IF
     /\ args.key.isPrivate
     /\ (args.address # NoAddr \/ args.env.currentAddr # NoAddr)
     /\ ~args.env.sendErr) =>
        /\ err = "nil"
        /\ tx.version = TxVersion
        /\ Len(tx.ins) = Len(args.utxos)
        /\ \A i \in 1..Len(tx.ins) :
              /\ Len(tx.ins[i].witness) = 3
              /\ tx.ins[i].witness[1] = ItemEmpty
              /\ tx.ins[i].witness[2].tag = "sig"
              /\ tx.ins[i].witness[3] = ItemScript(args.redeemScript.s)
        /\ sent = <<tx>>


\* C21: every value of a struct that has a Type field comes back from wrap in
\* the notification envelope with Type set to the discriminator of its
\* struct, whatever Type the caller supplied; ChatMessage, ChatRead,
\* ChatTyping and IncomingTransaction come back in the message, messageRead,
\* messageTyping and wallet envelopes; only the other values come back
\* unwrapped.
C21_WrapExhaustive ==
    note.op = "wrap" =>
        /\ note.in.type \in TypedStructs =>
               /\ note.out.envelope = "notification"
               /\ \A i \in NoteValues :
                      i.type = note.in.type => wrap(i).data.Type = note.out.data.Type
               /\ \A i \in NoteValues :
                      (wrap(i).envelope = "notification"
                           /\ wrap(i).data.Type = note.out.data.Type)
                          => i.type = note.in.type
        /\ note.in.type \in DOMAIN OwnEnvelope =>
               note.out = [envelope |-> OwnEnvelope[note.in.type], data |-> note.in]
        /\ note.out.envelope = "none" =>
               note.in.type \notin TypedStructs \cup DOMAIN OwnEnvelope


\* the decode calls of the last refresh
Decodes == {k \in 1..Len(xr.trace) : xr.trace[k].resp.kind = "json"}

\* C22: decode given a list whose first element has a string price_usd that
\* parses as a number sets cache["PHR"] to that number, touches no other
\* entry and returns nil; given an empty list it returns "could not get
\* currency"; whenever it returns an error the cache is as it was.
C22_DecodeAtomic ==
    \A k \in Decodes :
       LET e == xr.trace[k]
           d == e.resp.dat
       IN  /\ (d.shape = "list" /\ d.first = "object" /\ d.price = "string"
                   /\ ParseFloat(d.s).err = "nil") =>
                  /\ e.err = "nil"
                  /\ e.after = [e.before EXCEPT !["PHR"] = Rate(ParseFloat(d.s).val)]
           /\ (d.shape = "list" /\ d.first = "none") => e.err = "could not get currency"
           /\ (d.shape = "list" /\ d.first = "object"
                   /\ (d.price # "string" \/ ParseFloat(d.s).err # "nil")) =>
                  e.err \notin {"nil", "panic"}
           /\ e.err # "nil" => e.after = e.before

\* a decode that fails on a price that is no number while a rate is cached
C22_Witness ==
    \E k \in Decodes :
       /\ xr.trace[k].err = "usd price is not a number"
       /\ xr.trace[k].before["PHR"].ok
       /\ xr.trace[k].after = xr.trace[k].before

\* C24: GetExchangeRate(code) returns the cached rate and no error when code
\* is in the cache, 0 and an error when it is not; the cache is as before
\* and no refresh has run.
C24_GetExchangeRate ==
    (xr.call.op = "GetExchangeRate" /\ xr.call.pc = "done") =>
        LET c == xr.call IN
        /\ c.before[c.code].ok => (c.rate = c.before[c.code].val /\ c.err = "nil")
        /\ ~c.before[c.code].ok => (c.rate = 0 /\ c.err # "nil")
        /\ c.after = c.before
        /\ c.fetched1 = c.fetched0

\* a hit and, for the other code, the state a miss comes from
C24_Witness ==
    /\ xr.call.op = "GetExchangeRate"
    /\ xr.call.code = "PHR"
    /\ xr.call.before["PHR"].ok
    /\ xr.call.rate = 50
    /\ ~xr.call.before["USD"].ok

\* a refresh tries the providers in order and stops at the first that
\* succeeds
RefreshInOrder ==
    /\ Len(xr.trace) <= NumProviders
    /\ \A k \in 1..(Len(xr.trace) - 1) : xr.trace[k].err \notin {"nil", "panic"}
    /\ (xr.trace # <<>> /\ Len(xr.trace) < NumProviders) =>
           xr.trace[Len(xr.trace)].err \in {"nil", "panic"}

\* GetLatestRate("PHR") has returned and a provider succeeded in its refresh
LatestRateServed ==
    /\ xr.call.op = "GetLatestRate"
    /\ xr.call.pc = "done"
    /\ xr.call.code = "PHR"
    /\ xr.call.ownOk

\* C23: GetLatestRate runs one refresh, the providers tried in order up to
\* the first success, before it reads the cache; when a provider succeeded
\* in it, GetLatestRate("PHR") returns without error the rate written by that
\* refresh or by a refresh that ran after it and before the read, never one
\* cached before the call.
C23_LatestRateIsFresh ==
    /\ RefreshInOrder
    /\ xr.call.op = "GetLatestRate" => xr.call.own = xr.call.fetched0 + 1
    /\ LatestRateServed =>
           /\ xr.call.err = "nil"
           /\ xr.call.rate = xr.call.after["PHR"].val
           /\ xr.call.got >= xr.call.own
           /\ xr.call.got > xr.call.fetched0

\* a rate was cached before the call and the call returned another one, the
\* one its own refresh wrote
C23_Witness ==
    /\ LatestRateServed
    /\ xr.call.before["PHR"].ok
    /\ xr.call.rate # xr.call.before["PHR"].val
    /\ xr.call.got = xr.call.own

\* C23 as claimed: the rate returned is the one the call's own refresh wrote.
C23_OwnRefreshValue ==
    LatestRateServed => (xr.call.err = "nil" /\ xr.call.got = xr.call.own)


=============================================================================
